---- MODULE Spec2Model ----
(***************************************************************************)
(* A model of app.py: the sequential report-code allocator, the report     *)
(* data model with its JSON draft persistence, the Markdown renderer and   *)
(* the Drive / GitHub upload handlers.                                     *)
(*                                                                         *)
(* Text (a Python str, a file's content) is a sequence of symbols.  A      *)
(* symbol is one character ("\"", "\\", "\n", " ", "{", "7", ...) or an     *)
(* opaque run of ordinary characters ("Ana", "## Escopo", "counter").      *)
(* String concatenation and f-strings are sequence concatenation.          *)
(***************************************************************************)
EXTENDS Integers, Sequences, FiniteSets, TLC

\* ------------------------------------------------------------------------
\* Text helpers
\* ------------------------------------------------------------------------

T(s) == <<s>>

At(t, i) == IF i \in 1..Len(t) THEN t[i] ELSE "<eof>"

RECURSIVE Concat(_)
Concat(ss) == IF ss = <<>> THEN <<>> ELSE Head(ss) \o Concat(Tail(ss))

\* sep.join(items)
RECURSIVE Join(_, _)
Join(sep, items) ==
    IF items = <<>> THEN <<>>
    ELSE IF Len(items) = 1 THEN items[1]
    ELSE items[1] \o sep \o Join(sep, Tail(items))

\* str.strip() removes leading and trailing whitespace
WhitespaceSyms == {" ", "  ", "\t", "\n"}

RECURSIVE LStrip(_)
LStrip(s) ==
    IF s # <<>> /\ Head(s) \in WhitespaceSyms THEN LStrip(Tail(s)) ELSE s

RECURSIVE RStrip(_)
RStrip(s) ==
    IF s # <<>> /\ s[Len(s)] \in WhitespaceSyms
    THEN RStrip(SubSeq(s, 1, Len(s) - 1)) ELSE s

strip(s) == RStrip(LStrip(s))

\* str.replace(old, new) for a one-character old
replace(s, old, new) == [i \in 1..Len(s) |-> IF s[i] = old THEN new ELSE s[i]]

\* ------------------------------------------------------------------------
\* Integers as text: str(int), json.dumps(int), f"{n:03d}"
\* ------------------------------------------------------------------------

DigitSyms == <<"0", "1", "2", "3", "4", "5", "6", "7", "8", "9">>

IsDigit(c) == \E i \in 1..Len(DigitSyms) : DigitSyms[i] = c

DigitVal(c) == (CHOOSE i \in 1..Len(DigitSyms) : DigitSyms[i] = c) - 1

RECURSIVE NatToDigits(_)
NatToDigits(n) ==
    IF n < 10 THEN <<DigitSyms[n + 1]>>
    ELSE NatToDigits(n \div 10) \o <<DigitSyms[(n % 10) + 1]>>

IntToText(n) == IF n < 0 THEN <<"-">> \o NatToDigits(-n) ELSE NatToDigits(n)

RECURSIVE ZeroPad(_, _)
ZeroPad(ds, w) == IF Len(ds) >= w THEN ds ELSE ZeroPad(<<"0">> \o ds, w)

FormatWidth == 3

\* f"{n:03d}": zero padding to a minimum width, the sign counted in the width
Format03dNoPad(n) == IntToText(n)

Format03dTruncate(n) ==
    LET ds == ZeroPad(NatToDigits(IF n < 0 THEN -n ELSE n), FormatWidth)
    IN  SubSeq(ds, Len(ds) - FormatWidth + 1, Len(ds))

Format03d(n) ==
    IF n < 0 THEN <<"-">> \o ZeroPad(NatToDigits(-n), FormatWidth - 1)
    ELSE ZeroPad(NatToDigits(n), FormatWidth)

\* ------------------------------------------------------------------------
\* JSON values (what json.loads returns / json.dumps takes)
\* ------------------------------------------------------------------------

\* One record shape for every value: t is the type, n the number (a bool as
\* 0/1, a float's integer part), s the text (a float's digits after the
\* point), items a list's elements, members a dict's items in order.
J(t, n, s, items, members) ==
    [t |-> t, n |-> n, s |-> s, items |-> items, members |-> members]

JNull == J("null", 0, <<>>, <<>>, <<>>)
JBool(b) == J("bool", IF b THEN 1 ELSE 0, <<>>, <<>>, <<>>)
JInt(n) == J("int", n, <<>>, <<>>, <<>>)
\* a non-negative decimal
JFloat(ip, frac) == J("float", ip, frac, <<>>, <<>>)
JStr(s) == J("str", 0, s, <<>>, <<>>)
JList(items) == J("list", 0, <<>>, items, <<>>)
JObj(members) == J("obj", 0, <<>>, <<>>, members)

\* an item of a dict
KV(k, v) == [k |-> k, v |-> v]

RECURSIVE DictGet(_, _, _)
DictGet(items, k, default) ==
    IF items = <<>> THEN default
    ELSE IF items[Len(items)].k = k THEN items[Len(items)].v
    ELSE DictGet(SubSeq(items, 1, Len(items) - 1), k, default)

DictHas(items, k) == \E i \in 1..Len(items) : items[i].k = k

\* ------------------------------------------------------------------------
\* json.dumps(value, ensure_ascii=False, indent=2)
\* ------------------------------------------------------------------------

EscapeCharNoBackslash(c) ==
    IF c = "\"" THEN <<"\\", "\"">>
    ELSE IF c = "\n" THEN <<"\\", "n">>
    ELSE IF c = "\t" THEN <<"\\", "t">>
    ELSE <<c>>

EscapeChar(c) ==
    IF c = "\"" THEN <<"\\", "\"">>
    ELSE IF c = "\\" THEN <<"\\", "\\">>
    ELSE IF c = "\n" THEN <<"\\", "n">>
    ELSE IF c = "\t" THEN <<"\\", "t">>
    ELSE <<c>>

Quote(s) ==
    <<"\"">> \o Concat([i \in 1..Len(s) |-> EscapeChar(s[i])]) \o <<"\"">>

Indent(d) == [i \in 1..d |-> "  "]

RECURSIVE json_dumps_at(_, _)
json_dumps_at(j, d) ==
    CASE j.t = "null" -> <<"null">>
      [] j.t = "bool" -> IF j.n = 1 THEN <<"true">> ELSE <<"false">>
      [] j.t = "int" -> IntToText(j.n)
      [] j.t = "float" -> IntToText(j.n) \o <<".">> \o j.s
      [] j.t = "str" -> Quote(j.s)
      [] j.t = "list" ->
            IF j.items = <<>> THEN <<"[", "]">>
            ELSE <<"[", "\n">>
                 \o Join(<<",", "\n">>,
                         [i \in 1..Len(j.items) |->
                            Indent(d + 1) \o json_dumps_at(j.items[i], d + 1)])
                 \o <<"\n">> \o Indent(d) \o <<"]">>
      [] j.t = "obj" ->
            IF j.members = <<>> THEN <<"{", "}">>
            ELSE <<"{", "\n">>
                 \o Join(<<",", "\n">>,
                         [i \in 1..Len(j.members) |->
                            Indent(d + 1) \o Quote(j.members[i].k) \o <<":", " ">>
                            \o json_dumps_at(j.members[i].v, d + 1)])
                 \o <<"\n">> \o Indent(d) \o <<"}">>

json_dumps(j) == json_dumps_at(j, 0)

\* ------------------------------------------------------------------------
\* json.loads(text): a recursive-descent parser over the symbols.
\* Each parser returns [ok, v, i]: success, the value, the next index.
\* Numbers: integers with an optional sign and non-negative decimals
\* (exponents and \u escapes are not modelled).
\* ------------------------------------------------------------------------

ParseFail == [ok |-> FALSE, v |-> JNull, i |-> 0]
ParseOk(val, next) == [ok |-> TRUE, v |-> val, i |-> next]

RECURSIVE SkipWs(_, _)
SkipWs(t, i) == IF At(t, i) \in WhitespaceSyms THEN SkipWs(t, i + 1) ELSE i

RECURSIVE ScanString(_, _, _)
ScanString(t, i, acc) ==
    LET c == At(t, i)
        e == At(t, i + 1)
    IN  IF i > Len(t) THEN ParseFail
        ELSE IF c = "\"" THEN ParseOk(JStr(acc), i + 1)
        ELSE IF c = "\\" THEN
            IF e \in {"\"", "\\", "/"} THEN ScanString(t, i + 2, Append(acc, e))
            ELSE IF e = "n" THEN ScanString(t, i + 2, Append(acc, "\n"))
            ELSE IF e = "t" THEN ScanString(t, i + 2, Append(acc, "\t"))
            ELSE ParseFail
        ELSE IF c \in {"\n", "\t"} THEN ParseFail
        ELSE ScanString(t, i + 1, Append(acc, c))

\* the run of digits starting at i: <<value, digits, next index>>
RECURSIVE ScanDigits(_, _, _, _)
ScanDigits(t, i, n, ds) ==
    IF IsDigit(At(t, i))
    THEN ScanDigits(t, i + 1, 10 * n + DigitVal(t[i]), Append(ds, t[i]))
    ELSE <<n, ds, i>>

ParseNumber(t, i) ==
    LET neg == At(t, i) = "-"
        s == IF neg THEN i + 1 ELSE i
        \* JSON allows no leading zero: "0" ends the integer part
        ip == IF At(t, s) = "0" THEN <<0, <<"0">>, s + 1>>
              ELSE ScanDigits(t, s, 0, <<>>)
        fr == ScanDigits(t, ip[3] + 1, 0, <<>>)
    IN  IF ip[2] = <<>> THEN ParseFail
        ELSE IF At(t, ip[3]) = "." THEN
            IF fr[2] = <<>> \/ neg THEN ParseFail
            ELSE ParseOk(JFloat(ip[1], fr[2]), fr[3])
        ELSE ParseOk(JInt(IF neg THEN -ip[1] ELSE ip[1]), ip[3])

RECURSIVE ParseValue(_, _)
RECURSIVE ParseElems(_, _, _)
RECURSIVE ParseMembers(_, _, _)

ParseValue(t, i) ==
    LET c == At(t, i)
    IN  IF c = "{" THEN
            IF At(t, SkipWs(t, i + 1)) = "}"
            THEN ParseOk(JObj(<<>>), SkipWs(t, i + 1) + 1)
            ELSE ParseMembers(t, SkipWs(t, i + 1), <<>>)
        ELSE IF c = "[" THEN
            IF At(t, SkipWs(t, i + 1)) = "]"
            THEN ParseOk(JList(<<>>), SkipWs(t, i + 1) + 1)
            ELSE ParseElems(t, SkipWs(t, i + 1), <<>>)
        ELSE IF c = "\"" THEN ScanString(t, i + 1, <<>>)
        ELSE IF c = "null" THEN ParseOk(JNull, i + 1)
        ELSE IF c = "true" THEN ParseOk(JBool(TRUE), i + 1)
        ELSE IF c = "false" THEN ParseOk(JBool(FALSE), i + 1)
        ELSE IF c = "-" \/ IsDigit(c) THEN ParseNumber(t, i)
        ELSE ParseFail

\* i is at the first symbol of an element
ParseElems(t, i, acc) ==
    LET r == ParseValue(t, i)
        k == SkipWs(t, r.i)
    IN  IF ~r.ok THEN ParseFail
        ELSE IF At(t, k) = "," THEN ParseElems(t, SkipWs(t, k + 1), Append(acc, r.v))
        ELSE IF At(t, k) = "]" THEN ParseOk(JList(Append(acc, r.v)), k + 1)
        ELSE ParseFail

\* i is at the first symbol of a "key": value member
ParseMembers(t, i, acc) ==
    LET key == IF At(t, i) = "\"" THEN ScanString(t, i + 1, <<>>) ELSE ParseFail
        c == SkipWs(t, key.i)
        r == ParseValue(t, SkipWs(t, c + 1))
        k == SkipWs(t, r.i)
    IN  IF ~key.ok \/ At(t, c) # ":" THEN ParseFail
        ELSE IF ~r.ok THEN ParseFail
        ELSE IF At(t, k) = ","
             THEN ParseMembers(t, SkipWs(t, k + 1), Append(acc, KV(key.v.s, r.v)))
        ELSE IF At(t, k) = "}"
             THEN ParseOk(JObj(Append(acc, KV(key.v.s, r.v))), k + 1)
        ELSE ParseFail

\* [ok, v]: ok is FALSE where json.loads raises JSONDecodeError
json_loads(t) ==
    LET r == ParseValue(t, SkipWs(t, 1))
    IN  IF r.ok /\ SkipWs(t, r.i) > Len(t)
        THEN [ok |-> TRUE, v |-> r.v]
        ELSE [ok |-> FALSE, v |-> JNull]

\* ------------------------------------------------------------------------
\* Data model: Autor, Referencia, Anexo, Relatorio (pydantic BaseModel)
\* ------------------------------------------------------------------------

Autor(nome, cargo, email) == [nome |-> nome, cargo |-> cargo, email |-> email]
Referencia(referencia) == [referencia |-> referencia]
Anexo(titulo, descricao, link) ==
    [titulo |-> titulo, descricao |-> descricao, link |-> link]

\* dt.date.today().strftime("%Y-%m-%d"): the date of the run, one symbol
Today == <<"2025-01-01">>

\* Relatorio(): every field at its default
RelatorioDefault ==
    [titulo |-> <<"Relatório Técnico">>, cliente |-> <<>>, projeto |-> <<>>,
     codigo |-> <<>>, data |-> Today, versao |-> <<"1.0">>,
     autores |-> <<Autor(<<>>, <<>>, <<>>)>>, aprovador |-> <<>>,
     resumo_exec |-> <<>>, escopo |-> <<>>, dados_fontes |-> <<>>,
     metodologia |-> <<>>, resultados |-> <<>>, discussoes |-> <<>>,
     conclusoes |-> <<>>, recomendacoes |-> <<>>,
     referencias |-> <<>>, anexos |-> <<>>, observacoes |-> <<>>]

StrFields ==
    {"titulo", "cliente", "projeto", "codigo", "data", "versao", "aprovador",
     "resumo_exec", "escopo", "dados_fontes", "metodologia", "resultados",
     "discussoes", "conclusoes", "recomendacoes", "observacoes"}

ListFields == {"autores", "referencias", "anexos"}

\* model_dump(): the dict of the fields in declaration order, nested models
\* dumped as dicts
Autor_dump(a) ==
    JObj(<< KV(T("nome"), JStr(a.nome)), KV(T("cargo"), JStr(a.cargo)),
            KV(T("email"), JStr(a.email)) >>)

Referencia_dump(x) == JObj(<< KV(T("referencia"), JStr(x.referencia)) >>)

Anexo_dump(a) ==
    JObj(<< KV(T("titulo"), JStr(a.titulo)),
            KV(T("descricao"), JStr(a.descricao)),
            KV(T("link"), JStr(a.link)) >>)

model_dump(r) ==
    JObj(<< KV(T("titulo"), JStr(r.titulo)),
            KV(T("cliente"), JStr(r.cliente)),
            KV(T("projeto"), JStr(r.projeto)),
            KV(T("codigo"), JStr(r.codigo)),
            KV(T("data"), JStr(r.data)),
            KV(T("versao"), JStr(r.versao)),
            KV(T("autores"),
              JList([i \in 1..Len(r.autores) |-> Autor_dump(r.autores[i])])),
            KV(T("aprovador"), JStr(r.aprovador)),
            KV(T("resumo_exec"), JStr(r.resumo_exec)),
            KV(T("escopo"), JStr(r.escopo)),
            KV(T("dados_fontes"), JStr(r.dados_fontes)),
            KV(T("metodologia"), JStr(r.metodologia)),
            KV(T("resultados"), JStr(r.resultados)),
            KV(T("discussoes"), JStr(r.discussoes)),
            KV(T("conclusoes"), JStr(r.conclusoes)),
            KV(T("recomendacoes"), JStr(r.recomendacoes)),
            KV(T("referencias"),
              JList([i \in 1..Len(r.referencias) |->
                        Referencia_dump(r.referencias[i])])),
            KV(T("anexos"),
              JList([i \in 1..Len(r.anexos) |-> Anexo_dump(r.anexos[i])])),
            KV(T("observacoes"), JStr(r.observacoes)) >>)

\* Validation of a dict against a model: a key that is present must hold a
\* value of the field's type, a missing key takes the default, an extra key
\* is ignored.  A str field takes a JSON string only.
StrOk(items, k) ==
    ~DictHas(items, T(k)) \/ DictGet(items, T(k), JNull).t = "str"

StrOf(items, k, default) ==
    IF DictHas(items, T(k)) THEN DictGet(items, T(k), JNull).s ELSE default

Autor_ok(j) ==
    j.t = "obj" /\ \A k \in {"nome", "cargo", "email"} : StrOk(j.members, k)

Autor_of(j) ==
    Autor(StrOf(j.members, "nome", <<>>), StrOf(j.members, "cargo", <<>>),
          StrOf(j.members, "email", <<>>))

Referencia_ok(j) == j.t = "obj" /\ StrOk(j.members, "referencia")

Referencia_of(j) == Referencia(StrOf(j.members, "referencia", <<>>))

Anexo_ok(j) ==
    j.t = "obj" /\ \A k \in {"titulo", "descricao", "link"} : StrOk(j.members, k)

Anexo_of(j) ==
    Anexo(StrOf(j.members, "titulo", <<>>),
          StrOf(j.members, "descricao", <<>>), StrOf(j.members, "link", <<>>))

\* a List field: a JSON list whose every element validates
ListItems(items, k) == DictGet(items, T(k), JNull).items

ListPresent(items, k) == DictHas(items, T(k))

IsList(items, k) == DictGet(items, T(k), JNull).t = "list"

autores_ok(items) ==
    \/ ~ListPresent(items, "autores")
    \/ /\ IsList(items, "autores")
       /\ \A i \in 1..Len(ListItems(items, "autores")) :
              Autor_ok(ListItems(items, "autores")[i])

autores_of(items, default) ==
    IF ListPresent(items, "autores")
    THEN [i \in 1..Len(ListItems(items, "autores")) |->
             Autor_of(ListItems(items, "autores")[i])]
    ELSE default

referencias_ok(items) ==
    \/ ~ListPresent(items, "referencias")
    \/ /\ IsList(items, "referencias")
       /\ \A i \in 1..Len(ListItems(items, "referencias")) :
              Referencia_ok(ListItems(items, "referencias")[i])

referencias_of(items, default) ==
    IF ListPresent(items, "referencias")
    THEN [i \in 1..Len(ListItems(items, "referencias")) |->
             Referencia_of(ListItems(items, "referencias")[i])]
    ELSE default

anexos_ok(items) ==
    \/ ~ListPresent(items, "anexos")
    \/ /\ IsList(items, "anexos")
       /\ \A i \in 1..Len(ListItems(items, "anexos")) :
              Anexo_ok(ListItems(items, "anexos")[i])

anexos_of(items, default) ==
    IF ListPresent(items, "anexos")
    THEN [i \in 1..Len(ListItems(items, "anexos")) |->
             Anexo_of(ListItems(items, "anexos")[i])]
    ELSE default

\* Whether Relatorio(**data) succeeds: data must be a dict (** of anything
\* else is a TypeError) and every present field must validate
Relatorio_ok(data) ==
    /\ data.t = "obj"
    /\ \A k \in StrFields : StrOk(data.members, k)
    /\ autores_ok(data.members)
    /\ referencias_ok(data.members)
    /\ anexos_ok(data.members)

\* Relatorio(**data) where it succeeds
Relatorio_noDefaults(data) ==
    LET d == data.members
        D == RelatorioDefault
    IN  [titulo |-> StrOf(d, "titulo", <<>>),
         cliente |-> StrOf(d, "cliente", <<>>),
         projeto |-> StrOf(d, "projeto", <<>>),
         codigo |-> StrOf(d, "codigo", <<>>),
         data |-> StrOf(d, "data", <<>>),
         versao |-> StrOf(d, "versao", <<>>),
         autores |-> autores_of(d, <<>>),
         aprovador |-> StrOf(d, "aprovador", <<>>),
         resumo_exec |-> StrOf(d, "resumo_exec", <<>>),
         escopo |-> StrOf(d, "escopo", <<>>),
         dados_fontes |-> StrOf(d, "dados_fontes", <<>>),
         metodologia |-> StrOf(d, "metodologia", <<>>),
         resultados |-> StrOf(d, "resultados", <<>>),
         discussoes |-> StrOf(d, "discussoes", <<>>),
         conclusoes |-> StrOf(d, "conclusoes", <<>>),
         recomendacoes |-> StrOf(d, "recomendacoes", <<>>),
         referencias |-> referencias_of(d, <<>>),
         anexos |-> anexos_of(d, <<>>),
         observacoes |-> StrOf(d, "observacoes", <<>>)]

Relatorio_of(data) ==
    LET d == data.members
        D == RelatorioDefault
    IN  [titulo |-> StrOf(d, "titulo", D.titulo),
         cliente |-> StrOf(d, "cliente", D.cliente),
         projeto |-> StrOf(d, "projeto", D.projeto),
         codigo |-> StrOf(d, "codigo", D.codigo),
         data |-> StrOf(d, "data", D.data),
         versao |-> StrOf(d, "versao", D.versao),
         autores |-> autores_of(d, D.autores),
         aprovador |-> StrOf(d, "aprovador", D.aprovador),
         resumo_exec |-> StrOf(d, "resumo_exec", D.resumo_exec),
         escopo |-> StrOf(d, "escopo", D.escopo),
         dados_fontes |-> StrOf(d, "dados_fontes", D.dados_fontes),
         metodologia |-> StrOf(d, "metodologia", D.metodologia),
         resultados |-> StrOf(d, "resultados", D.resultados),
         discussoes |-> StrOf(d, "discussoes", D.discussoes),
         conclusoes |-> StrOf(d, "conclusoes", D.conclusoes),
         recomendacoes |-> StrOf(d, "recomendacoes", D.recomendacoes),
         referencias |-> referencias_of(d, D.referencias),
         anexos |-> anexos_of(d, D.anexos),
         observacoes |-> StrOf(d, "observacoes", D.observacoes)]

\* ------------------------------------------------------------------------
\* to_markdown
\* ------------------------------------------------------------------------

Placeholder == <<"(preencher)">>

\* Python's `x or y` on strings
Or(x, y) == IF x # <<>> THEN x ELSE y

SectionHeadings ==
    <<"## Resumo Executivo", "## Escopo", "## Dados & Fontes",
      "## Metodologia", "## Resultados", "## Discussões", "## Conclusões",
      "## Recomendações", "## Observações">>

AutorLine(a) ==
    <<"- ">> \o a.nome \o <<" (">> \o a.cargo \o <<") <">> \o a.email \o <<">">>

ReferenciaLine(x) == <<"- ">> \o x.referencia

\* (the dash of the source is an en dash, written "--" here)
AnexoLine(a) ==
    <<"- **">> \o a.titulo \o <<"** -- ">> \o a.descricao \o <<" ">>
    \o (IF a.link # <<>> THEN <<"(">> \o a.link \o <<")">> ELSE <<>>)

autores_kept_all(r) == r.autores

autores_kept(r) == SelectSeq(r.autores, LAMBDA a : strip(a.nome) # <<>>)

referencias_kept(r) ==
    SelectSeq(r.referencias, LAMBDA x : strip(x.referencia) # <<>>)

anexos_kept(r) == SelectSeq(r.anexos, LAMBDA a : strip(a.titulo) # <<>>)

autores_md(r) ==
    LET kept == autores_kept(r)
    IN  Join(<<"\n">>, [i \in 1..Len(kept) |-> AutorLine(kept[i])])

refs_md(r) ==
    LET kept == referencias_kept(r)
    IN  Join(<<"\n">>, [i \in 1..Len(kept) |-> ReferenciaLine(kept[i])])

anexos_md(r) ==
    LET kept == anexos_kept(r)
    IN  Join(<<"\n">>, [i \in 1..Len(kept) |-> AnexoLine(kept[i])])

\* "\n## <title>\n" + (text or "(preencher)")
section_md_noheading(heading, text) == <<"\n", "\n">> \o Or(text, Placeholder)

section_md(heading, text) == <<"\n", heading, "\n">> \o Or(text, Placeholder)

\* the last entry of parts: "\n## Observações\n" + (r.observacoes or "")
observacoes_md_placeholder(r) == section_md(SectionHeadings[9], r.observacoes)

observacoes_md(r) == <<"\n", SectionHeadings[9], "\n">> \o Or(r.observacoes, <<>>)

to_markdown_parts(r) ==
    << <<"# ">> \o r.titulo,
       <<"**Cliente:** ">> \o r.cliente \o <<"  ">>,
       <<"**Projeto:** ">> \o r.projeto \o <<"  ">>,
       <<"**Código:** ">> \o r.codigo \o <<"  ">>,
       <<"**Data:** ">> \o r.data \o <<"  ">>,
       <<"**Versão:** ">> \o r.versao,
       <<"\n", "---", "\n">>,
       <<"## Autores">>,
       Or(autores_md(r), Placeholder),
       <<"\n", "**Aprovador:** ">> \o Or(r.aprovador, Placeholder) \o <<"\n">>,
       section_md(SectionHeadings[1], r.resumo_exec),
       section_md(SectionHeadings[2], r.escopo),
       section_md(SectionHeadings[3], r.dados_fontes),
       section_md(SectionHeadings[4], r.metodologia),
       section_md(SectionHeadings[5], r.resultados),
       section_md(SectionHeadings[6], r.discussoes),
       section_md(SectionHeadings[7], r.conclusoes),
       section_md(SectionHeadings[8], r.recomendacoes),
       <<"\n", "## Referências", "\n">> \o Or(refs_md(r), Placeholder),
       <<"\n", "## Anexos", "\n">> \o Or(anexos_md(r), Placeholder),
       observacoes_md(r) >>

to_markdown(r) == Join(<<"\n">>, to_markdown_parts(r))

\* ------------------------------------------------------------------------
\* The logo and get_logo_dims_cm.  Lengths in cm are exact fractions
\* <<numerator, denominator>> in lowest terms.
\* ------------------------------------------------------------------------

RECURSIVE Gcd(_, _)
Gcd(a, b) == IF b = 0 THEN a ELSE Gcd(b, a % b)

Rat(n, d) == LET g == Gcd(n, d) IN IF g = 0 THEN <<0, 1>> ELSE <<n \div g, d \div g>>

RatMul(x, y) == Rat(x[1] * y[1], x[2] * y[2])

\* n / d of two integers, which raises ZeroDivisionError for d = 0
Div(n, d) == [raised |-> d = 0, v |-> IF d = 0 THEN <<0, 1>> ELSE Rat(n, d)]

\* st.session_state.logo_bytes: None, or the bytes of an upload, which PIL
\* decodes to an image of w x h pixels or fails to decode
Logo(present, decodes, w, h) ==
    [present |-> present, decodes |-> decodes, w |-> w, h |-> h]

NoLogo == Logo(FALSE, FALSE, 0, 0)

\* the width the script passes to both exporters: the width widget has no
\* key, so "logo_width_cm" is never in st.session_state (lines 548, 557)
LOGO_WIDTH_DEFAULT == <<7, 2>>

Dims(raised, w, h) == [raised |-> raised, w |-> w, h |-> h]

\* the mutant: no test for an image without width or height
get_logo_dims_cm_nocheck(logo_bytes, width_cm) ==
    IF ~logo_bytes.decodes THEN Dims(TRUE, <<0, 1>>, <<0, 1>>)
    ELSE LET ratio == Div(logo_bytes.h, logo_bytes.w)
         IN  Dims(ratio.raised, width_cm, RatMul(width_cm, ratio.v))

\* lines 126-134; PILImage.open raises on bytes that are no image
get_logo_dims_cm(logo_bytes, width_cm) ==
    IF ~logo_bytes.decodes THEN Dims(TRUE, <<0, 1>>, <<0, 1>>)
    ELSE IF logo_bytes.w = 0 \/ logo_bytes.h = 0
         THEN Dims(FALSE, width_cm, RatMul(width_cm, <<1, 2>>))
    ELSE LET ratio == Div(logo_bytes.h, logo_bytes.w)
         IN  Dims(ratio.raised, width_cm, RatMul(width_cm, ratio.v))

\* ------------------------------------------------------------------------
\* build_pdf: the story handed to reportlab, a sequence of flowables
\* ------------------------------------------------------------------------

Flowable(type, style, text, w, h) ==
    [type |-> type, style |-> style, text |-> text, w |-> w, h |-> h]

Spacer(h) == Flowable("Spacer", "", <<>>, <<1, 1>>, h)

\* p(text, style) of build_pdf: a Paragraph of the text with its newlines as <br/>, and
\* a Spacer of 0.3 cm
pdf_p(text, style) ==
    << Flowable("Paragraph", style, replace(text, "\n", "<br/>"), <<0, 1>>, <<0, 1>>),
       Spacer(<<3, 10>>) >>

SectionTitles ==
    <<"Resumo Executivo", "Escopo", "Dados & Fontes", "Metodologia",
      "Resultados", "Discussões", "Conclusões", "Recomendações", "Observações">>

Bold(text) == <<"<b>">> \o text \o <<"</b>">>

\* sec(title, text) of build_pdf
pdf_sec(title, text) == pdf_p(Bold(<<title>>), "BodyText") \o pdf_p(Or(text, Placeholder), "BodyText")

pdf_logo(logo_bytes, logo_width_cm) ==
    IF ~logo_bytes.present THEN <<>>
    ELSE LET d == get_logo_dims_cm(logo_bytes, logo_width_cm)
         IN  << Flowable("Image", "", <<>>, d.w, d.h), Spacer(<<4, 10>>) >>

pdf_meta(r) ==
    <<"Cliente: ">> \o Bold(Or(r.cliente, <<"-">>)) \o <<"<br/>">>
    \o <<"Projeto: ">> \o Bold(Or(r.projeto, <<"-">>)) \o <<"<br/>">>
    \o <<"Código: ">> \o Bold(Or(r.codigo, <<"-">>)) \o <<"<br/>">>
    \o <<"Data: ">> \o Bold(Or(r.data, <<"-">>)) \o <<"<br/>">>
    \o <<"Versão: ">> \o Bold(Or(r.versao, <<"-">>))

pdf_autores(r) ==
    LET kept == autores_kept(r)
    IN  Or(Join(<<"<br/>">>, [i \in 1..Len(kept) |->
               <<"- ">> \o kept[i].nome \o <<" (">> \o kept[i].cargo
               \o <<") &lt;">> \o kept[i].email \o <<"&gt;">>]),
           Placeholder)

pdf_refs(r) ==
    LET kept == referencias_kept(r)
    IN  Or(Join(<<"<br/>">>, [i \in 1..Len(kept) |-> ReferenciaLine(kept[i])]),
           Placeholder)

\* (the dash of the source is an en dash, written "--" here)
pdf_anexos(r) ==
    LET kept == anexos_kept(r)
    IN  Or(Join(<<"<br/>">>, [i \in 1..Len(kept) |->
               <<"- ">> \o Bold(kept[i].titulo) \o <<" -- ">> \o kept[i].descricao
               \o <<" ">>
               \o (IF kept[i].link # <<>> THEN <<"(">> \o kept[i].link \o <<")">>
                   ELSE <<>>)]),
           Placeholder)

\* the mutant: the notes block whatever the notes
pdf_notes_always(r) == pdf_sec(SectionTitles[9], r.observacoes)

\* lines 203-204
pdf_notes(r) ==
    IF r.observacoes # <<>> THEN pdf_sec(SectionTitles[9], r.observacoes) ELSE <<>>

\* [ok, story]: ok is FALSE where build_pdf raises (a logo PIL cannot open)
build_pdf(r, logo_bytes, logo_width_cm) ==
    IF logo_bytes.present /\ get_logo_dims_cm(logo_bytes, logo_width_cm).raised
    THEN [ok |-> FALSE, story |-> <<>>]
    ELSE [ok |-> TRUE,
          story |->
            pdf_logo(logo_bytes, logo_width_cm)
            \o pdf_p(Bold(r.titulo), "Title")
            \o pdf_p(pdf_meta(r), "BodyText")
            \o pdf_p(Bold(<<"Autores">>) \o <<"<br/>">> \o pdf_autores(r), "BodyText")
            \o pdf_p(Bold(<<"Aprovador">>) \o <<"<br/>">> \o Or(r.aprovador, Placeholder),
                 "BodyText")
            \o pdf_sec(SectionTitles[1], r.resumo_exec)
            \o pdf_sec(SectionTitles[2], r.escopo)
            \o pdf_sec(SectionTitles[3], r.dados_fontes)
            \o pdf_sec(SectionTitles[4], r.metodologia)
            \o pdf_sec(SectionTitles[5], r.resultados)
            \o pdf_sec(SectionTitles[6], r.discussoes)
            \o pdf_sec(SectionTitles[7], r.conclusoes)
            \o pdf_sec(SectionTitles[8], r.recomendacoes)
            \o pdf_p(Bold(<<"Referências">>) \o <<"<br/>">> \o pdf_refs(r), "BodyText")
            \o pdf_p(Bold(<<"Anexos">>) \o <<"<br/>">> \o pdf_anexos(r), "BodyText")
            \o pdf_notes(r)]

\* ------------------------------------------------------------------------
\* build_docx: the header and the body of the document, a sequence of
\* headings and paragraphs
\* ------------------------------------------------------------------------

\* doc.add_heading: level 0 is the style "Title", level 1 "Heading 1"
Heading(text, level) ==
    Flowable("Heading", IF level = 0 THEN "Title" ELSE "Heading 1", text,
             <<0, 1>>, <<0, 1>>)

Para(text) == Flowable("Paragraph", "Normal", text, <<0, 1>>, <<0, 1>>)

\* sec(title, text) of build_docx
docx_sec(title, text) == << Heading(<<title>>, 1), Para(Or(text, Placeholder)) >>

\* the runs of the metadata paragraph, one after the other
docx_meta(r) ==
    <<"Cliente: ">> \o Or(r.cliente, <<"-">>)
    \o <<"\n", "Projeto: ">> \o Or(r.projeto, <<"-">>)
    \o <<"\n", "Código: ">> \o Or(r.codigo, <<"-">>)
    \o <<"\n", "Data: ">> \o Or(r.data, <<"-">>)
    \o <<"\n", "Versão: ">> \o Or(r.versao, <<"-">>)

\* lines 235-238: the named authors, nothing for a list without one
docx_autores(r) ==
    LET kept == autores_kept(r)
    IN  [i \in 1..Len(kept) |-> Para(AutorLine(kept[i]))]

\* lines 255-260
docx_refs(r) ==
    LET kept == referencias_kept(r)
    IN  IF r.referencias # <<>>
        THEN [i \in 1..Len(kept) |-> Para(ReferenciaLine(kept[i]))]
        ELSE <<Para(Placeholder)>>

\* lines 262-271
docx_anexos(r) ==
    LET kept == anexos_kept(r)
    IN  IF r.anexos # <<>>
        THEN [i \in 1..Len(kept) |->
                 Para(<<"- ">> \o kept[i].titulo \o <<" -- ">> \o kept[i].descricao
                      \o (IF kept[i].link # <<>>
                          THEN <<" (">> \o kept[i].link \o <<")">> ELSE <<>>))]
        ELSE <<Para(Placeholder)>>

\* lines 273-274
docx_notes(r) ==
    IF r.observacoes # <<>> THEN docx_sec(SectionTitles[9], r.observacoes) ELSE <<>>

\* [ok, header, body]: ok is FALSE where build_docx raises (add_picture of
\* bytes that are no image)
build_docx(r, logo_bytes, logo_width_cm) ==
    IF logo_bytes.present /\ ~logo_bytes.decodes
    THEN [ok |-> FALSE, header |-> <<>>, body |-> <<>>]
    ELSE [ok |-> TRUE,
          header |-> IF logo_bytes.present
                     THEN <<Flowable("Picture", "", <<>>, logo_width_cm, <<0, 1>>)>>
                     ELSE <<>>,
          body |->
            << Heading(Or(r.titulo, <<"Relatório Técnico">>), 0), Para(docx_meta(r)),
               Heading(<<"Autores">>, 1) >>
            \o docx_autores(r)
            \o << Para(<<"Aprovador: ">> \o Or(r.aprovador, Placeholder)) >>
            \o docx_sec(SectionTitles[1], r.resumo_exec)
            \o docx_sec(SectionTitles[2], r.escopo)
            \o docx_sec(SectionTitles[3], r.dados_fontes)
            \o docx_sec(SectionTitles[4], r.metodologia)
            \o docx_sec(SectionTitles[5], r.resultados)
            \o docx_sec(SectionTitles[6], r.discussoes)
            \o docx_sec(SectionTitles[7], r.conclusoes)
            \o docx_sec(SectionTitles[8], r.recomendacoes)
            \o << Heading(<<"Referências">>, 1) >> \o docx_refs(r)
            \o << Heading(<<"Anexos">>, 1) >> \o docx_anexos(r)
            \o docx_notes(r)]

\* ------------------------------------------------------------------------
\* The file system: disk[dir][name] is the text of file dir/name; the
\* directories that exist are DOMAIN disk, a directory's files DOMAIN disk[d]
\* ------------------------------------------------------------------------

NoFiles == [n \in {} |-> <<>>]

\* Path.mkdir(parents=True, exist_ok=True)
mkdir(dsk, d) ==
    IF d \in DOMAIN dsk THEN dsk
    ELSE [x \in DOMAIN dsk \cup {d} |-> IF x = d THEN NoFiles ELSE dsk[x]]

\* Path.write_text: creates or overwrites
write_text(dsk, d, name, text) ==
    [dsk EXCEPT ![d] =
        [n \in DOMAIN @ \cup {name} |-> IF n = name THEN text ELSE @[n]]]

exists(dsk, d, name) == d \in DOMAIN dsk /\ name \in DOMAIN dsk[d]

\* ------------------------------------------------------------------------
\* next_report_code
\* ------------------------------------------------------------------------

COUNTER_FILE_DEFAULT == <<"counter", ".json">>

\* the mutant: one counter file, that of the default directory, whatever
\* the directory of the call
read_counter_global(dsk, d) ==
    IF ~exists(dsk, "drafts", COUNTER_FILE_DEFAULT) THEN JInt(0)
    ELSE LET j == json_loads(dsk["drafts"][COUNTER_FILE_DEFAULT])
         IN  IF ~j.ok THEN JInt(0)
             ELSE IF j.v.t # "obj" THEN JInt(0)
             ELSE DictGet(j.v.members, T("counter"), JInt(0))

\* lines 52-57: the counter as read; every exception of the read is caught
read_counter(dsk, d) ==
    IF ~exists(dsk, d, COUNTER_FILE_DEFAULT) THEN JInt(0)
    ELSE LET j == json_loads(dsk[d][COUNTER_FILE_DEFAULT])
         IN  IF ~j.ok THEN JInt(0)                \* JSONDecodeError
             ELSE IF j.v.t # "obj" THEN JInt(0)   \* no .get: AttributeError
             ELSE DictGet(j.v.members, T("counter"), JInt(0))

\* line 58, counter += 1: defined on int, bool (an int) and float
CanIncrement(c) == c.t \in {"int", "bool", "float"}

IncrementBy2(c) == IF c.t = "float" THEN JFloat(c.n + 2, c.s) ELSE JInt(c.n + 2)

Increment(c) == IF c.t = "float" THEN JFloat(c.n + 1, c.s) ELSE JInt(c.n + 1)

\* lines 58-60 on the counter read: the exception raised ("" for none),
\* whether line 59 was reached and what it wrote, and the value returned
finish_call(c, prefix) ==
    IF ~CanIncrement(c)
    THEN [raised |-> "TypeError", write |-> FALSE, text |-> <<>>,
          n |-> JNull, ret |-> <<>>]
    ELSE LET n == Increment(c)
         IN  [raised |-> IF n.t = "int" THEN "" ELSE "ValueError",
              write |-> TRUE,
              text |-> json_dumps(JObj(<< KV(T("counter"), n) >>)),
              n |-> n,
              ret |-> IF n.t = "int" THEN prefix \o Format03d(n.n) ELSE <<>>]

\* ------------------------------------------------------------------------
\* Draft persistence (the "Salvar local agora" and "Carregar rascunho
\* local" blocks, and the autosave of the form)
\* ------------------------------------------------------------------------

\* f"{(codigo or 'relatorio').replace(' ', '_')}.json"
draft_fname_raw(r) == Or(r.codigo, <<"relatorio">>) \o <<".json">>

draft_fname(r) ==
    replace(Or(r.codigo, <<"relatorio">>), " ", "_") \o <<".json">>

\* json.dumps(rel.model_dump(), ensure_ascii=False, indent=2)
draft_text(r) == json_dumps(model_dump(r))

\* p / fname names a file of p only if fname has no separator; with one the
\* file lies in a sub-directory, and none exists under a drafts directory
CanWrite(name) == \A i \in 1..Len(name) : name[i] # "/"

\* json.loads(text) then Relatorio(**data): [ok, v]
load_draft_noparse(text) == [ok |-> TRUE, v |-> RelatorioDefault]

load_draft(text) ==
    LET j == json_loads(text)
        ok == j.ok /\ Relatorio_ok(j.v)
    IN  [ok |-> ok, v |-> IF ok THEN Relatorio_of(j.v) ELSE RelatorioDefault]

\* ------------------------------------------------------------------------
\* State.  Each action below is one handler block of the script (a button,
\* a selection, the form), run by one session.
\* ------------------------------------------------------------------------

Sessions == {"s1", "s2"}
Dirs == {"drafts", "shared"}
DefaultDir == "drafts"
DefaultPrefix == <<"MavipeRTEC">>

VARIABLES
    disk,         \* the file system (see above)
    ver,          \* ver[d]: how many times the allocator wrote d/counter.json
    raced,        \* raced[d]: a call on d has read while another was under way
    rel,          \* rel[s]: st.session_state.rel of session s
    code_prefix,  \* code_prefix[s]: st.session_state.code_prefix
    draft_dir,    \* draft_dir[s]: st.session_state.draft_dir
    autosave,     \* autosave[s]: st.session_state.autosave
    alloc,        \* alloc[s]: the frame of the session's next_report_code call
                  \* (rd, wr: the value of ver when it read and after it wrote)
    msg,          \* msg[s]: what the session's last run displayed
    preview,      \* preview[s].md: the Markdown preview of the session's last run
    logo,         \* logo[s]: st.session_state.logo_bytes
    exports,      \* exports[s]: the PDF and DOCX built by the session's last run
    nedits,       \* number of form submissions so far
    secrets,      \* st.secrets: "absent", "invalid" or "valid" per destination
    remote,       \* remote[dest]: the names of the files stored at dest
    upload        \* the last upload handler run and the adapter calls it made

allocVars == <<ver, raced, alloc>>
uiVars == <<code_prefix, draft_dir, autosave, logo>>
uploadVars == <<secrets, remote, upload>>

vars == <<disk, ver, raced, rel, code_prefix, draft_dir, autosave, alloc, msg,
          preview, logo, exports, nedits, secrets, remote, upload>>

\* line 539: every run of the script ends by rendering the preview of rel
render(r) == [md |-> to_markdown(r)]

NotBuilt == [ok |-> FALSE, header |-> <<>>, body |-> <<>>]

\* lines 547-561: every run then builds the PDF and the DOCX of rel with the
\* session's logo at the default width; a build_pdf that raises ends the
\* run before build_docx is reached
export(r, logo_bytes) ==
    LET pdf == build_pdf(r, logo_bytes, LOGO_WIDTH_DEFAULT)
    IN  [pdf |-> pdf,
         docx |-> IF pdf.ok THEN build_docx(r, logo_bytes, LOGO_WIDTH_DEFAULT)
                  ELSE NotBuilt]

Msg(kind, text) == [kind |-> kind, text |-> text]
NoMsg == Msg("none", <<>>)

AllocIdle ==
    [pc |-> "idle", dir |-> DefaultDir, prefix |-> <<>>, counter |-> JNull,
     rd |-> 0, wr |-> 0, n |-> JNull, ret |-> <<>>, done |-> FALSE]

Destinations == {"drive", "github"}

NoUpload == [handler |-> "none", session |-> "none", calls |-> <<>>]

InitConfigured(sec) ==
    /\ ver = [d \in Dirs |-> 0]
    /\ raced = [d \in Dirs |-> FALSE]
    /\ rel = [s \in Sessions |-> RelatorioDefault]
    /\ code_prefix = [s \in Sessions |-> DefaultPrefix]
    /\ draft_dir = [s \in Sessions |-> DefaultDir]
    /\ autosave = [s \in Sessions |-> TRUE]
    /\ alloc = [s \in Sessions |-> AllocIdle]
    /\ msg = [s \in Sessions |-> NoMsg]
    /\ preview = [s \in Sessions |-> render(RelatorioDefault)]
    /\ logo = [s \in Sessions |-> NoLogo]
    /\ exports = [s \in Sessions |-> export(RelatorioDefault, NoLogo)]
    /\ nedits = 0
    /\ secrets = sec
    /\ remote = [d \in Destinations |-> {}]
    /\ upload = NoUpload

\* a deployment with no secrets: neither remote destination is offered
InitSessions == InitConfigured([d \in Destinations |-> "absent"])

\* the first run of the script has created the (empty) drafts directory
Init ==
    /\ disk = (DefaultDir :> NoFiles)
    /\ InitSessions

\* ------------------------------------------------------------------------
\* "Gerar código": next_report_code and the handler around it
\* ------------------------------------------------------------------------

\* what the handler displays and assigns once next_report_code has ended
gerar_msg(f) ==
    IF f.raised = "" THEN Msg("success", <<"Código gerado: ">> \o f.ret)
    ELSE Msg("exception", <<f.raised>>)

gerar_rel(r, f) == IF f.raised = "" THEN [r EXCEPT !.codigo = f.ret] ELSE r

\* lines 49-57: the directory is made and the counter read
GenRead(s) ==
    /\ alloc[s].pc = "idle"
    /\ LET d == draft_dir[s]
           dsk == mkdir(disk, d)
       IN  /\ disk' = dsk
           /\ alloc' = [alloc EXCEPT ![s] =
                  [pc |-> "read", dir |-> d, prefix |-> code_prefix[s],
                   counter |-> read_counter(dsk, d), rd |-> ver[d],
                   wr |-> 0, n |-> JNull, ret |-> <<>>, done |-> FALSE]]
           /\ raced' = [raced EXCEPT ![d] =
                  @ \/ \E u \in Sessions \ {s} :
                          alloc[u].pc = "read" /\ alloc[u].dir = d]
    /\ msg' = [msg EXCEPT ![s] = NoMsg]
    /\ UNCHANGED <<ver, rel, preview, exports, nedits, uiVars, uploadVars>>

\* the write-back done from a fresh read of the file, as under a lock
GenWriteLocked(s) ==
    /\ alloc[s].pc = "read"
    /\ LET d == alloc[s].dir
           c == read_counter(mkdir(disk, d), d)
           f == finish_call(c, alloc[s].prefix)
       IN  /\ disk' = IF f.write
                      THEN write_text(mkdir(disk, d), d, COUNTER_FILE_DEFAULT, f.text)
                      ELSE disk
           /\ ver' = IF f.write THEN [ver EXCEPT ![d] = @ + 1] ELSE ver
           /\ alloc' = [alloc EXCEPT ![s].pc = "idle", ![s].n = f.n,
                                     ![s].counter = c,
                                     ![s].wr = ver'[d], ![s].ret = f.ret,
                                     ![s].done = (f.raised = "")]
           /\ rel' = [rel EXCEPT ![s] = gerar_rel(@, f)]
           /\ msg' = [msg EXCEPT ![s] = gerar_msg(f)]
           /\ preview' = [preview EXCEPT ![s] = render(gerar_rel(rel[s], f))]
           /\ exports' = [exports EXCEPT ![s] = export(gerar_rel(rel[s], f), logo[s])]
    /\ UNCHANGED <<raced, nedits, uiVars, uploadVars>>

\* lines 58-60 and 371-373: increment, write back, return, assign the code
GenWrite(s) ==
    /\ alloc[s].pc = "read"
    /\ LET d == alloc[s].dir
           f == finish_call(alloc[s].counter, alloc[s].prefix)
       IN  /\ disk' = IF f.write
                      THEN write_text(mkdir(disk, d), d, COUNTER_FILE_DEFAULT, f.text)
                      ELSE disk
           /\ ver' = IF f.write THEN [ver EXCEPT ![d] = @ + 1] ELSE ver
           /\ alloc' = [alloc EXCEPT ![s].pc = "idle", ![s].n = f.n,
                                     ![s].wr = ver'[d], ![s].ret = f.ret,
                                     ![s].done = (f.raised = "")]
           /\ rel' = [rel EXCEPT ![s] = gerar_rel(@, f)]
           /\ msg' = [msg EXCEPT ![s] = gerar_msg(f)]
           /\ preview' = [preview EXCEPT ![s] = render(gerar_rel(rel[s], f))]
           /\ exports' = [exports EXCEPT ![s] = export(gerar_rel(rel[s], f), logo[s])]
    /\ UNCHANGED <<raced, nedits, uiVars, uploadVars>>

\* the whole handler with no other session running in between
GerarCodigo(s) ==
    /\ \A u \in Sessions : alloc[u].pc = "idle"
    /\ LET d == draft_dir[s]
           dsk == mkdir(disk, d)
           c == read_counter(dsk, d)
           f == finish_call(c, code_prefix[s])
       IN  /\ disk' = IF f.write
                      THEN write_text(dsk, d, COUNTER_FILE_DEFAULT, f.text)
                      ELSE dsk
           /\ ver' = IF f.write THEN [ver EXCEPT ![d] = @ + 1] ELSE ver
           /\ alloc' = [alloc EXCEPT ![s] =
                  [pc |-> "idle", dir |-> d, prefix |-> code_prefix[s],
                   counter |-> c, rd |-> ver[d], wr |-> ver'[d], n |-> f.n,
                   ret |-> f.ret, done |-> (f.raised = "")]]
           /\ rel' = [rel EXCEPT ![s] = gerar_rel(@, f)]
           /\ msg' = [msg EXCEPT ![s] = gerar_msg(f)]
           /\ preview' = [preview EXCEPT ![s] = render(gerar_rel(rel[s], f))]
           /\ exports' = [exports EXCEPT ![s] = export(gerar_rel(rel[s], f), logo[s])]
    /\ UNCHANGED <<raced, nedits, uiVars, uploadVars>>

\* lines 367-368: the prefix field
SetPrefix(s, p) ==
    /\ alloc[s].pc = "idle"
    /\ code_prefix[s] # p
    /\ code_prefix' = [code_prefix EXCEPT ![s] = p]
    /\ msg' = [msg EXCEPT ![s] = NoMsg]
    /\ UNCHANGED <<disk, rel, draft_dir, autosave, logo, preview, exports,
                   nedits, allocVars,
                   uploadVars>>

\* lines 384-397: the drafts directory field; the directory is made
SetDraftDir(s, d) ==
    /\ alloc[s].pc = "idle"
    /\ draft_dir[s] # d
    /\ draft_dir' = [draft_dir EXCEPT ![s] = d]
    /\ disk' = mkdir(disk, d)
    /\ msg' = [msg EXCEPT ![s] = NoMsg]
    /\ UNCHANGED <<rel, code_prefix, autosave, logo, preview, exports,
                   nedits, allocVars,
                   uploadVars>>

\* ------------------------------------------------------------------------
\* The form (lines 453-534), the autosave that ends it, and the draft
\* handlers of the sidebar
\* ------------------------------------------------------------------------

\* The form as every run of the script passes through it: an empty date
\* shows as today's (line 463), and the author list is padded to the number
\* of authors asked for, which is at least 1 (lines 469-473)
form_pass(r) ==
    [r EXCEPT !.data = IF @ = <<>> THEN Today ELSE @,
              !.autores = IF @ = <<>> THEN <<Autor(<<>>, <<>>, <<>>)>> ELSE @]

\* lines 523-531 and 409-415: the directory is made, then the file written;
\* an exception of either is caught and displayed
save_disk(dsk, d, r) ==
    IF CanWrite(draft_fname(r))
    THEN write_text(mkdir(dsk, d), d, draft_fname(r), draft_text(r))
    ELSE mkdir(dsk, d)

\* "Atualizar prévia": the form submitted with the report typed into it
FormSubmit(s, typed) ==
    /\ alloc[s].pc = "idle"
    /\ LET r == form_pass(typed)
           d == draft_dir[s]
       IN  /\ rel' = [rel EXCEPT ![s] = r]
           /\ disk' = IF autosave[s] THEN save_disk(disk, d, r) ELSE disk
           /\ msg' = [msg EXCEPT ![s] =
                  IF ~autosave[s] THEN NoMsg
                  ELSE IF CanWrite(draft_fname(r))
                       THEN Msg("toast", <<"Rascunho salvo localmente">>)
                       ELSE Msg("warning", <<"Não foi possível salvar automaticamente: ">>)]
           /\ preview' = [preview EXCEPT ![s] = render(r)]
           /\ exports' = [exports EXCEPT ![s] = export(r, logo[s])]
    /\ nedits' = nedits + 1
    /\ UNCHANGED <<uiVars, allocVars, uploadVars>>

\* lines 387-388: the autosave checkbox
ToggleAutosave(s) ==
    /\ alloc[s].pc = "idle"
    /\ autosave' = [autosave EXCEPT ![s] = ~@]
    /\ msg' = [msg EXCEPT ![s] = NoMsg]
    /\ UNCHANGED <<disk, rel, code_prefix, draft_dir, logo, preview, exports,
                   nedits, allocVars, uploadVars>>

\* lines 420-426: a file in the logo uploader; its bytes become the
\* session's logo and the run builds the exports with it
LogoUpload(s, logo_file) ==
    /\ alloc[s].pc = "idle"
    /\ logo' = [logo EXCEPT ![s] = logo_file]
    /\ msg' = [msg EXCEPT ![s] = Msg("success", <<"Logo carregado!">>)]
    /\ exports' = [exports EXCEPT ![s] = export(rel[s], logo_file)]
    /\ UNCHANGED <<disk, rel, code_prefix, draft_dir, autosave, preview, nedits,
                   allocVars, uploadVars>>

\* lines 408-415: "Salvar local agora"
SalvarLocal(s) ==
    /\ alloc[s].pc = "idle"
    /\ LET r == rel[s]
           d == draft_dir[s]
       IN  /\ disk' = save_disk(disk, d, r)
           /\ msg' = [msg EXCEPT ![s] =
                  IF CanWrite(draft_fname(r))
                  THEN Msg("success", <<"Salvo em ", d, "/">> \o draft_fname(r))
                  ELSE Msg("error", <<"Falha ao salvar: ">>)]
    /\ UNCHANGED <<rel, preview, exports, nedits, uiVars, allocVars, uploadVars>>

\* lines 390-406: a draft of the directory chosen in "Carregar rascunho local"
CarregarRascunho(s, name) ==
    /\ alloc[s].pc = "idle"
    /\ exists(disk, draft_dir[s], name)
    /\ LET l == load_draft(disk[draft_dir[s]][name])
           r == IF l.ok THEN form_pass(l.v) ELSE rel[s]
       IN  /\ rel' = [rel EXCEPT ![s] = r]
           /\ msg' = [msg EXCEPT ![s] =
                  IF l.ok THEN Msg("success", <<"Rascunho carregado: ">> \o name)
                  ELSE Msg("error", <<"Erro ao carregar rascunho: ">> \o name)]
           /\ preview' = [preview EXCEPT ![s] = render(r)]
           /\ exports' = [exports EXCEPT ![s] = export(r, logo[s])]
    /\ UNCHANGED <<disk, nedits, uiVars, allocVars, uploadVars>>

\* ------------------------------------------------------------------------
\* The upload adapters and the four handlers that send to Drive and GitHub.
\* The answer of the remote service to a request is an input of the handler.
\* ------------------------------------------------------------------------

\* a request is answered with the stored file's link (200/201), with another
\* status, or not at all
Outcomes == {"ok", "http_error", "transport_error"}

Failed(o) == o \in {"http_error", "transport_error"}

\* lines 293-304: the service, or None (FALSE) after st.error
get_drive_service(sec) == sec["drive"] = "valid"

\* The result of an adapter call: whether it raised, what it returned, how
\* many requests it made, whether the file was stored, whether it displayed
\* an error itself
Call(dest, file, raised, ret, requests, sent, st_error) ==
    [dest |-> dest, file |-> file, raised |-> raised, ret |-> ret,
     requests |-> requests, sent |-> sent, st_error |-> st_error]

\* lines 306-312: no try; service None raises AttributeError at line 311,
\* .execute() raises on a transport or HTTP error
drive_upload_bytes(service, filename, o) ==
    IF ~service THEN Call("drive", filename, TRUE, <<>>, 0, FALSE, FALSE)
    ELSE IF Failed(o) THEN Call("drive", filename, TRUE, <<>>, 1, FALSE, FALSE)
    ELSE Call("drive", filename, FALSE,
              <<"https://drive.google.com/file/">> \o filename, 1, TRUE, FALSE)

\* lines 322-337: every exception is caught, displayed and turned into ""
github_upload_bytes(sec, filename, o) ==
    IF sec["github"] # "valid" THEN Call("github", filename, FALSE, <<>>, 0, FALSE, TRUE)
    ELSE IF Failed(o) THEN Call("github", filename, FALSE, <<>>, 1, FALSE, TRUE)
    ELSE Call("github", filename, FALSE,
              <<"https://github.com/blob/">> \o filename, 1, TRUE, FALSE)

\* (rel.codigo or "relatorio").replace(" ", "_")
base_name(r) == replace(Or(r.codigo, <<"relatorio">>), " ", "_")

\* the calls of a handler that makes them one after the other inside one
\* try: those up to the first that raises
RECURSIVE until_raise(_)
until_raise(calls) ==
    IF calls = <<>> THEN <<>>
    ELSE IF Head(calls).raised THEN <<Head(calls)>>
    ELSE <<Head(calls)>> \o until_raise(Tail(calls))

Raised(calls) == \E i \in 1..Len(calls) : calls[i].raised

Sent(calls) == {calls[i].file : i \in {j \in 1..Len(calls) : calls[j].sent}}

\* what a handler leaves: its calls in `upload`, the files stored in `remote`
uploaded(s, handler, dest, calls, m) ==
    /\ alloc[s].pc = "idle"
    /\ exports[s].pdf.ok    \* the run got past line 551 to the upload sections
    /\ upload' = [handler |-> handler, session |-> s, calls |-> calls]
    /\ remote' = [remote EXCEPT ![dest] = @ \cup Sent(calls)]
    /\ msg' = [msg EXCEPT ![s] = m]
    /\ UNCHANGED <<disk, rel, preview, exports, nedits, secrets, uiVars, allocVars>>

\* lines 569-579: "Enviar rascunho (.json) ao Drive"
EnviarRascunhoDrive(s, o) ==
    /\ secrets["drive"] # "absent"
    /\ LET svc == get_drive_service(secrets)
           calls == until_raise(
               <<drive_upload_bytes(svc, base_name(rel[s]) \o <<".json">>, o)>>)
       IN  uploaded(s, "rascunho_drive", "drive", calls,
                    IF Raised(calls) THEN Msg("error", <<"Falha ao enviar ao Drive: ">>)
                    ELSE Msg("success", <<"Rascunho enviado!">>))

\* lines 580-596: "Enviar exportações (MD/PDF/DOCX) ao Drive"
EnviarExportacoesDrive(s, o1, o2, o3) ==
    /\ secrets["drive"] # "absent"
    /\ LET svc == get_drive_service(secrets)
           base == base_name(rel[s])
           calls == until_raise(
               <<drive_upload_bytes(svc, base \o <<".md">>, o1),
                 drive_upload_bytes(svc, base \o <<".pdf">>, o2),
                 drive_upload_bytes(svc, base \o <<".docx">>, o3)>>)
       IN  uploaded(s, "exportacoes_drive", "drive", calls,
                    IF Raised(calls) THEN Msg("error", <<"Falha ao enviar ao Drive: ">>)
                    ELSE Msg("success", <<"Exportações enviadas para o Drive:">>))

\* lines 604-614: "Enviar rascunho (.json) ao GitHub"
EnviarRascunhoGitHub(s, o) ==
    /\ secrets["github"] # "absent"
    /\ LET calls == until_raise(
               <<github_upload_bytes(secrets, base_name(rel[s]) \o <<".json">>, o)>>)
       IN  uploaded(s, "rascunho_github", "github", calls,
                    IF Raised(calls) THEN Msg("error", <<"Falha GitHub: ">>)
                    ELSE Msg("success", <<"Rascunho enviado ao GitHub!">>))

\* lines 615-629: "Enviar exportações (MD/PDF/DOCX) ao GitHub"
EnviarExportacoesGitHub(s, o1, o2, o3) ==
    /\ secrets["github"] # "absent"
    /\ LET base == base_name(rel[s])
           calls == until_raise(
               <<github_upload_bytes(secrets, base \o <<".md">>, o1),
                 github_upload_bytes(secrets, base \o <<".pdf">>, o2),
                 github_upload_bytes(secrets, base \o <<".docx">>, o3)>>)
       IN  uploaded(s, "exportacoes_github", "github", calls,
                    IF Raised(calls) THEN Msg("error", <<"Falha GitHub: ">>)
                    ELSE Msg("success", <<"Exportações enviadas ao GitHub!">>))

\* the values typed into the form
Blank == <<" ">>
Tricky == <<"## Escopo", "\n", "\"", "\\", "n", "é", "\t">>

TextValues == {<<>>, Blank, Tricky}
CodeValues == {<<>>, <<"C1">>, <<"R", " ", "1">>}
DateValues == {Today, <<"2024-12-31">>}

AutoresValues ==
    { <<Autor(<<"Ana">>, <<>>, <<>>)>>,
      <<Autor(Blank, <<"Dev">>, <<>>), Autor(Tricky, <<"Eng">>, <<"a@x">>),
        Autor(<<>>, <<>>, <<>>), Autor(<<"Bob">>, <<>>, Tricky)>> }

ReferenciasValues ==
    { <<>>,
      <<Referencia(Blank), Referencia(<<>>)>>,
      <<Referencia(<<"R1">>), Referencia(Blank), Referencia(Tricky)>> }

AnexosValues ==
    { <<>>,
      <<Anexo(Blank, <<"d">>, <<"l">>)>>,
      <<Anexo(<<"A1">>, <<"d">>, <<>>), Anexo(Blank, <<"d">>, <<"l">>),
        Anexo(Tricky, Tricky, <<"http://x">>)>> }

FormValues(k) ==
    CASE k = "codigo" -> CodeValues
      [] k = "data" -> DateValues
      [] k = "autores" -> AutoresValues
      [] k = "referencias" -> ReferenciasValues
      [] k = "anexos" -> AnexosValues
      [] OTHER -> TextValues

\* the reports the form can be left with: one field of the report changed
Edits(r, fields) ==
    UNION {{[r EXCEPT ![k] = v] : v \in FormValues(k)} : k \in fields} \ {r}

\* every field filled in, with every symbol the serialisation escapes
Filled ==
    [k \in StrFields \cup ListFields |->
        CASE k = "codigo" -> <<"C1">>
          [] k = "data" -> <<"2024-12-31">>
          [] k = "autores" ->
               <<Autor(Blank, <<"Dev">>, <<>>), Autor(Tricky, <<"Eng">>, <<"a@x">>),
                 Autor(<<>>, <<>>, <<>>), Autor(<<"Bob">>, <<>>, Tricky)>>
          [] k = "referencias" ->
               <<Referencia(<<"R1">>), Referencia(Blank), Referencia(Tricky)>>
          [] k = "anexos" ->
               <<Anexo(<<"A1">>, <<"d">>, <<>>), Anexo(Blank, <<"d">>, <<"l">>),
                 Anexo(Tricky, Tricky, <<"http://x">>)>>
          [] OTHER -> Tricky]

\* the reports typed in the runs that exercise the drafts: the code
\* changed, or every field filled in
DraftEdits(r) ==
    (Edits(r, {"codigo"}) \cup {[Filled EXCEPT !.codigo = r.codigo]}) \ {r}

DraftNames(d) == IF d \in DOMAIN disk THEN DOMAIN disk[d] ELSE {}

\* ------------------------------------------------------------------------
\* Specification of the allocator used by one session, from a directory
\* with no counter file
\* ------------------------------------------------------------------------

MaxSeqCalls == 1000

NextSeq ==
    \E s \in {"s1"} : ver[draft_dir[s]] < MaxSeqCalls /\ GerarCodigo(s)

SpecSeq == Init /\ [][NextSeq]_vars

\* the value of a run of decimal digits
RECURSIVE DigitsToNat(_)
DigitsToNat(ds) ==
    IF ds = <<>> THEN 0
    ELSE 10 * DigitsToNat(SubSeq(ds, 1, Len(ds) - 1)) + DigitVal(ds[Len(ds)])

AllDigits(ds) == \A i \in 1..Len(ds) : IsDigit(ds[i])

\* the counter file of d holds exactly {"counter": k}
StoresCounter(dsk, d, k) ==
    /\ exists(dsk, d, COUNTER_FILE_DEFAULT)
    /\ json_loads(dsk[d][COUNTER_FILE_DEFAULT])
         = [ok |-> TRUE, v |-> JObj(<< KV(T("counter"), JInt(k)) >>)]

CounterFileStores(d, k) == StoresCounter(disk, d, k)

\* C1: from a directory with no counter file, the k-th sequential call
\* returns the prefix followed by k in decimal, zero-padded to at least 3
\* digits and never truncated, and leaves the counter file storing k.
C1_SequentialCodes ==
    \A s \in Sessions :
        msg[s].kind # "none" =>
            LET k == ver[alloc[s].dir]
                code == alloc[s].ret
                pre == alloc[s].prefix
                num == SubSeq(code, Len(pre) + 1, Len(code))
            IN  /\ alloc[s].done
                /\ k >= 1
                /\ SubSeq(code, 1, Len(pre)) = pre
                /\ AllDigits(num)
                /\ DigitsToNat(num) = k
                /\ Len(num) >= FormatWidth
                /\ (Len(num) > FormatWidth => num[1] # "0")
                /\ CounterFileStores(alloc[s].dir, k)
                /\ rel[s].codigo = code

C1_Witness ==
    /\ alloc["s1"].done
    /\ ver[DefaultDir] = 1000
    /\ alloc["s1"].ret = DefaultPrefix \o <<"1", "0", "0", "0">>
    /\ CounterFileStores(DefaultDir, 1000)

\* ------------------------------------------------------------------------
\* Specification of the allocator started on a directory whose counter file
\* holds arbitrary content
\* ------------------------------------------------------------------------

CounterObj(j) == json_dumps(JObj(<< KV(T("counter"), j) >>))

CounterFileSamples ==
    { <<>>,
      <<"garbage">>,
      <<"{", "\"", "counter", "\"", ":">>,
      json_dumps(JList(<<JInt(1)>>)),
      json_dumps(JInt(7)),
      json_dumps(JObj(<<>>)),
      json_dumps(JObj(<< KV(T("other"), JInt(5)) >>)),
      CounterObj(JStr(<<"abc">>)),
      CounterObj(JNull),
      CounterObj(JFloat(2, <<"5">>)),
      CounterObj(JBool(TRUE)),
      CounterObj(JList(<<>>)),
      CounterObj(JInt(-2)),
      CounterObj(JInt(41)),
      CounterObj(JInt(998)) }

InitCorrupt ==
    /\ \/ disk = (DefaultDir :> NoFiles)
       \/ \E t \in CounterFileSamples :
              disk = (DefaultDir :> (COUNTER_FILE_DEFAULT :> t))
    /\ InitSessions

MaxCorruptCalls == 16

NextCorrupt ==
    \E s \in {"s1"} : ver[draft_dir[s]] < MaxCorruptCalls /\ GerarCodigo(s)

SpecCorrupt == InitCorrupt /\ [][NextCorrupt]_vars

\* no integer counter can be read from the counter file of d
NoIntegerCounter(dsk, d) ==
    \/ ~exists(dsk, d, COUNTER_FILE_DEFAULT)
    \/ LET j == json_loads(dsk[d][COUNTER_FILE_DEFAULT])
       IN  \/ ~j.ok
           \/ j.v.t # "obj"
           \/ DictGet(j.v.members, T("counter"), JNull).t # "int"

\* C2: a call on a counter file from which no integer counter can be read
\* raises nothing, returns prefix + "001" and leaves the file storing 1.
C2_CorruptionResets ==
    [][\A s \in Sessions :
          (alloc'[s] # alloc[s] /\ NoIntegerCounter(disk, draft_dir[s])) =>
              /\ alloc'[s].done
              /\ msg'[s].kind = "success"
              /\ alloc'[s].ret = code_prefix[s] \o <<"0", "0", "1">>
              /\ StoresCounter(disk', draft_dir[s], 1)]_vars

\* ------------------------------------------------------------------------
\* Specification of two sessions allocating on the same directory, the
\* read and the write-back of each call being separate steps
\* ------------------------------------------------------------------------

MaxRaceCalls == 4

NextRace ==
    \E s \in Sessions :
        \/ ver[draft_dir[s]] < MaxRaceCalls /\ GenRead(s)
        \/ GenWrite(s)

SpecRace == Init /\ [][NextRace]_vars

SameTarget(s, u) ==
    /\ s # u
    /\ alloc[s].done /\ alloc[u].done
    /\ alloc[s].dir = alloc[u].dir
    /\ alloc[s].prefix = alloc[u].prefix

\* C3: two calls that both read the counter before either wrote it back
\* return the same code and leave the counter advanced by 1 only; two calls
\* run one after the other return different codes.
C3_RaceDuplicates ==
    \A s, u \in Sessions :
        SameTarget(s, u) =>
            /\ alloc[s].rd = alloc[u].rd =>
                  /\ alloc[s].ret = alloc[u].ret
                  /\ alloc[s].n = alloc[u].n
                  /\ alloc[s].n = JInt(alloc[s].counter.n + 1)
                  /\ ({alloc[s].wr, alloc[u].wr} = {ver[alloc[s].dir] - 1, ver[alloc[s].dir]}
                        => CounterFileStores(alloc[s].dir, alloc[s].counter.n + 1))
            /\ ~raced[alloc[s].dir] => alloc[s].ret # alloc[u].ret

C3_Witness ==
    /\ SameTarget("s1", "s2")
    /\ alloc["s1"].rd = alloc["s2"].rd
    /\ alloc["s1"].ret = alloc["s2"].ret
    /\ alloc["s1"].ret = DefaultPrefix \o <<"0", "0", "1">>
    /\ ver[DefaultDir] = 2
    /\ CounterFileStores(DefaultDir, 1)

\* ------------------------------------------------------------------------
\* Specification of the drafts of one session: the form, saving, loading
\* ------------------------------------------------------------------------

MaxEdits == 2

NextDraft ==
    \E s \in {"s1"} :
        \/ \E typed \in DraftEdits(rel[s]) :
               nedits < MaxEdits /\ FormSubmit(s, typed)
        \/ ToggleAutosave(s)
        \/ SalvarLocal(s)
        \/ \E name \in DraftNames(draft_dir[s]) : CarregarRascunho(s, name)

SpecDraft == Init /\ [][NextDraft]_vars

SavedMsg(s) ==
    Msg("success", <<"Salvo em ", draft_dir[s], "/">> \o draft_fname(rel[s]))

AutosavedMsg == Msg("toast", <<"Rascunho salvo localmente">>)

LoadedMsg(name) == Msg("success", <<"Rascunho carregado: ">> \o name)

LoadErrorMsg(name) == Msg("error", <<"Erro ao carregar rascunho: ">> \o name)

\* the draft file of the session's report, read back
ReadBack(s) == load_draft(disk[draft_dir[s]][draft_fname(rel[s])])

\* C4: a report saved as a local draft and loaded again is the same report,
\* field for field and with the order of its lists.  Right after "Salvar
\* local agora" or an autosave, the file written loads as the session's
\* report, and the serialisation of that report with no author at all loads
\* as that very report; a draft loaded is the report its file holds.
C4_RoundTrip ==
    \A s \in Sessions :
        /\ msg[s] \in {SavedMsg(s), AutosavedMsg} =>
               /\ exists(disk, draft_dir[s], draft_fname(rel[s]))
               /\ ReadBack(s) = [ok |-> TRUE, v |-> rel[s]]
               /\ LET e == [rel[s] EXCEPT !.autores = <<>>]
                  IN  load_draft(draft_text(e)) = [ok |-> TRUE, v |-> e]
        /\ \A name \in DraftNames(draft_dir[s]) :
               msg[s] = LoadedMsg(name) =>
                   rel[s] = load_draft(disk[draft_dir[s]][name]).v

\* a report with the escaped symbols in a text field and several authors,
\* references and attachments has been saved with the button
C4_Witness ==
    /\ msg["s1"] = SavedMsg("s1")
    /\ rel["s1"] = [Filled EXCEPT !.codigo = <<"R", " ", "1">>]
    /\ ~autosave["s1"]

\* a draft saved earlier has been loaded over a report edited since
C4_WitnessLoad ==
    /\ msg["s1"] = LoadedMsg(<<"C1", ".json">>)
    /\ rel["s1"].codigo = <<"C1">>
    /\ nedits = MaxEdits

\* ------------------------------------------------------------------------
\* Specification of loading: a drafts directory that holds files written by
\* other versions and other programs
\* ------------------------------------------------------------------------

\* the dict of the fields ks of r, in declaration order
model_dump_only(r, ks) ==
    JObj(SelectSeq(model_dump(r).members, LAMBDA m : m.k \in {T(k) : k \in ks}))

AllFields == StrFields \cup ListFields

\* the sets of keys of the drafts that hold a part of Filled
PartialKeys ==
    T("only_titulo") :> {"titulo"} @@
    T("only_autores") :> {"autores"} @@
    T("only_anexos") :> {"anexos"} @@
    T("metadata") :> {"titulo", "cliente", "projeto", "codigo", "data", "versao"} @@
    T("no_titulo") :> AllFields \ {"titulo"} @@
    T("no_versao") :> AllFields \ {"versao"} @@
    T("no_data") :> AllFields \ {"data"} @@
    T("no_autores") :> AllFields \ {"autores"} @@
    T("no_lists") :> AllFields \ ListFields @@
    T("empty_object") :> {} @@
    T("every_key") :> AllFields

\* drafts of other shapes
OtherDrafts ==
    T("extra_key") :>
        json_dumps(JObj(<<KV(T("zzz"), JInt(5)), KV(T("cliente"), JStr(<<"ACME">>))>>)) @@
    T("empty_lists") :>
        json_dumps(JObj(<<KV(T("autores"), JList(<<>>)), KV(T("data"), JStr(<<>>))>>)) @@
    T("partial_author") :>
        json_dumps(JObj(<<KV(T("autores"),
            JList(<<JObj(<<KV(T("nome"), JStr(<<"Ana">>))>>)>>))>>)) @@
    T("truncated") :> SubSeq(draft_text(Filled), 1, 40) @@
    T("no_text") :> <<>> @@
    T("a_list") :> json_dumps(JList(<<JObj(<<>>)>>)) @@
    T("a_number") :> json_dumps(JInt(7)) @@
    T("number_title") :> json_dumps(JObj(<<KV(T("titulo"), JInt(5))>>)) @@
    T("null_title") :> json_dumps(JObj(<<KV(T("titulo"), JNull)>>)) @@
    T("text_authors") :> json_dumps(JObj(<<KV(T("autores"), JStr(<<"Ana">>))>>)) @@
    T("number_author") :> json_dumps(JObj(<<KV(T("autores"), JList(<<JInt(1)>>))>>))

DraftSamples ==
    [n \in {x \o <<".json">> : x \in DOMAIN PartialKeys \cup DOMAIN OtherDrafts} |->
        LET x == SubSeq(n, 1, Len(n) - 1)
        IN  IF x \in DOMAIN PartialKeys
            THEN json_dumps(model_dump_only(Filled, PartialKeys[x]))
            ELSE OtherDrafts[x]]

InitLoad ==
    /\ InitSessions
    /\ disk = (DefaultDir :> DraftSamples)

NextLoad ==
    \E s \in {"s1"} :
        \E name \in DraftNames(draft_dir[s]) : CarregarRascunho(s, name)

SpecLoad == InitLoad /\ [][NextLoad]_vars

\* the report a draft holding the JSON object j stands for: the value of
\* each key it has, the default of each field it lacks
Expected(j) ==
    [k \in AllFields |->
        IF ~DictHas(j.members, T(k)) THEN RelatorioDefault[k]
        ELSE CASE k = "autores" -> autores_of(j.members, <<>>)
               [] k = "referencias" -> referencias_of(j.members, <<>>)
               [] k = "anexos" -> anexos_of(j.members, <<>>)
               [] OTHER -> DictGet(j.members, T(k), JNull).s]

\* the part of Filled a draft with the keys ks holds
ExpectedPart(ks) ==
    [k \in AllFields |-> IF k \in ks THEN Filled[k] ELSE RelatorioDefault[k]]

IsPartial(name) ==
    /\ Len(name) > 0
    /\ SubSeq(name, 1, Len(name) - 1) \in DOMAIN PartialKeys

C8_Loaded ==
    \A s \in Sessions : \A name \in DraftNames(draft_dir[s]) :
        /\ msg[s] = LoadedMsg(name) =>
              LET j == json_loads(disk[draft_dir[s]][name])
              IN  /\ j.ok /\ j.v.t = "obj"
                  /\ rel[s] = form_pass(Expected(j.v))
                  /\ IsPartial(name) =>
                         rel[s] = ExpectedPart(PartialKeys[SubSeq(name, 1, Len(name) - 1)])
        /\ msg[s] = LoadErrorMsg(name) =>
              /\ ~IsPartial(name)
              /\ ~load_draft(disk[draft_dir[s]][name]).ok

C8_FailedStep ==
    \A s \in Sessions :
        (\E name \in DraftNames(draft_dir[s]) : msg'[s] = LoadErrorMsg(name)) =>
            rel'[s] = rel[s] /\ preview'[s] = preview[s]

\* C8: loading a draft whose JSON object lacks any of the report's keys
\* succeeds, and the session's report then has the default of every field
\* the file lacks and the file's value of every field it has (as the form
\* shows it: an empty author list as one blank author, an empty date as
\* today's); a load fails only on a file that is not JSON, not an object, or
\* holds a value of the wrong type, and a failed load leaves the session's
\* report as it was.
C8_LoadDefaults == []C8_Loaded /\ [][C8_FailedStep]_vars

\* a draft holding the authors only has been loaded: the title is the
\* default, the authors are the file's
C8_Witness ==
    /\ msg["s1"] = LoadedMsg(T("only_autores") \o <<".json">>)
    /\ rel["s1"].titulo = <<"Relatório Técnico">>
    /\ rel["s1"].autores = Filled.autores

\* a load has failed on a truncated file, the report loaded before still in
\* place
C8_WitnessFailed ==
    /\ msg["s1"] = LoadErrorMsg(T("truncated") \o <<".json">>)
    /\ rel["s1"] = ExpectedPart(PartialKeys[T("metadata")])

\* ------------------------------------------------------------------------
\* Specification of the preview: the form submitted with any one field
\* changed, the preview rendered at the end of the run
\* ------------------------------------------------------------------------

NextRender ==
    \E s \in {"s1"} :
        \E typed \in Edits(rel[s], AllFields) :
            nedits < MaxEdits /\ FormSubmit(s, typed)

SpecRender == Init /\ [][NextRender]_vars

Occurrences(t, h) == Cardinality({i \in 1..Len(t) : t[i] = h})

\* h makes a line of t at position i
IsLine(t, h, i) ==
    /\ At(t, i) = h
    /\ At(t, i - 1) \in {"\n", "<eof>"}
    /\ At(t, i + 1) \in {"\n", "<eof>"}

HeadingLines(t, h) == Cardinality({i \in 1..Len(t) : IsLine(t, h, i)})

RECURSIVE FirstLineFrom(_, _, _)
FirstLineFrom(t, h, i) ==
    IF i > Len(t) THEN 0
    ELSE IF IsLine(t, h, i) THEN i
    ELSE FirstLineFrom(t, h, i + 1)

\* the lines hs occur in t from position i on, in this order
RECURSIVE InOrder(_, _, _)
InOrder(t, hs, i) ==
    \/ hs = <<>>
    \/ LET q == FirstLineFrom(t, Head(hs), i)
       IN  q # 0 /\ InOrder(t, Tail(hs), q + 1)

IsBlankText(t) == \A i \in 1..Len(t) : t[i] \in WhitespaceSyms

\* the entries of a list whose field f is not blank (blankOnly) or not
\* empty (~blankOnly), in the order of the list
RECURSIVE Kept(_, _, _)
Kept(entries, f, blankOnly) ==
    IF entries = <<>> THEN <<>>
    ELSE LET e == Head(entries)
             omit == IF blankOnly THEN IsBlankText(e[f]) ELSE e[f] = <<>>
         IN  (IF omit THEN <<>> ELSE <<e>>) \o Kept(Tail(entries), f, blankOnly)

\* every field value that the preview of r shows
ShownText(r) ==
    LET au == Kept(r.autores, "nome", TRUE)
        re == Kept(r.referencias, "referencia", TRUE)
        an == Kept(r.anexos, "titulo", TRUE)
    IN  r.titulo \o r.cliente \o r.projeto \o r.codigo \o r.data \o r.versao
        \o Concat([i \in 1..Len(au) |-> au[i].nome \o au[i].cargo \o au[i].email])
        \o r.aprovador \o r.resumo_exec \o r.escopo \o r.dados_fontes
        \o r.metodologia \o r.resultados \o r.discussoes \o r.conclusoes
        \o r.recomendacoes
        \o Concat([i \in 1..Len(re) |-> re[i].referencia])
        \o Concat([i \in 1..Len(an) |-> an[i].titulo \o an[i].descricao \o an[i].link])
        \o r.observacoes

\* C5 as stated: every preview has exactly one line of each of the nine
\* section headings, and the nine in their fixed order.
C5_ExactlyOnce ==
    \A s \in Sessions :
        /\ \A i \in 1..9 : HeadingLines(preview[s].md, SectionHeadings[i]) = 1
        /\ InOrder(preview[s].md, SectionHeadings, 1)

\* C5 amended: every preview has the nine section headings as lines in their
\* fixed order, and each heading occurs once more than it occurs in the
\* field values shown: exactly once when no field holds heading text.
C5_HeadingsOncePlusFields ==
    \A s \in Sessions :
        /\ InOrder(preview[s].md, SectionHeadings, 1)
        /\ \A i \in 1..9 :
               Occurrences(preview[s].md, SectionHeadings[i]) =
                   1 + Occurrences(ShownText(rel[s]), SectionHeadings[i])

\* a section text that begins with the line "## Escopo" is shown: the
\* preview has two such lines
C5_Witness ==
    /\ rel["s1"].resumo_exec = Tricky
    /\ rel["s1"].escopo = <<>>
    /\ HeadingLines(preview["s1"].md, "## Escopo") = 2

\* the line h directly followed by the placeholder alone on its line
ShowsPlaceholder(t, h) ==
    \E i \in 1..Len(t) :
        /\ IsLine(t, h, i)
        /\ At(t, i + 2) = "(preencher)"
        /\ At(t, i + 3) \in {"\n", "<eof>"}

SectionField ==
    <<"resumo_exec", "escopo", "dados_fontes", "metodologia", "resultados",
      "discussoes", "conclusoes", "recomendacoes", "observacoes">>

\* the placeholder stands for the authors, the approver, each of the eight
\* narrative sections, the references and the attachments that are empty
PlaceholdersShown(r, md) ==
    /\ Kept(r.autores, "nome", TRUE) = <<>> => ShowsPlaceholder(md, "## Autores")
    /\ r.aprovador = <<>> =>
           \E i \in 1..Len(md) :
               /\ md[i] = "**Aprovador:** "
               /\ At(md, i + 1) = "(preencher)"
               /\ At(md, i + 2) = "\n"
    /\ \A i \in 1..8 :
           r[SectionField[i]] = <<>> => ShowsPlaceholder(md, SectionHeadings[i])
    /\ Kept(r.referencias, "referencia", TRUE) = <<>> =>
           ShowsPlaceholder(md, "## Referências")
    /\ Kept(r.anexos, "titulo", TRUE) = <<>> => ShowsPlaceholder(md, "## Anexos")

\* C6 as stated: every empty section of the preview, Observações included,
\* shows the placeholder "(preencher)" in place of its content.
C6_EveryEmptySection ==
    \A s \in Sessions :
        /\ PlaceholdersShown(rel[s], preview[s].md)
        /\ rel[s].observacoes = <<>> =>
               ShowsPlaceholder(preview[s].md, "## Observações")

\* C6 amended: the authors, the approver, the eight narrative sections, the
\* references and the attachments show the placeholder when they are empty;
\* an empty Observações shows its heading with nothing under it.
C6_PlaceholdersExceptNotes ==
    \A s \in Sessions :
        LET md == preview[s].md
        IN  /\ PlaceholdersShown(rel[s], md)
            /\ rel[s].observacoes = <<>> =>
                   /\ SubSeq(md, Len(md) - 2, Len(md)) = <<"\n", "## Observações", "\n">>
                   /\ ~ShowsPlaceholder(md, "## Observações")

\* the form has been submitted with every section left empty
C6_Witness ==
    /\ nedits = 1
    /\ rel["s1"].titulo = Tricky
    /\ \A i \in 1..9 : rel["s1"][SectionField[i]] = <<>>
    /\ ShowsPlaceholder(preview["s1"].md, "## Recomendações")
    /\ ~ShowsPlaceholder(preview["s1"].md, "## Observações")

IsPrefix(p, t) == Len(p) <= Len(t) /\ SubSeq(t, 1, Len(p)) = p

IsSuffix(p, t) == Len(p) <= Len(t) /\ SubSeq(t, Len(t) - Len(p) + 1, Len(t)) = p

\* the lines of a list, or the placeholder when there is none
ListBlock(lines) == IF lines = <<>> THEN Placeholder ELSE Join(<<"\n">>, lines)

\* the preview down to the approver: the title, the metadata lines, the
\* author lines "- name (role) <email>" of the authors kept
PreviewTop(r, blankOnly) ==
    LET au == Kept(r.autores, "nome", blankOnly)
    IN  <<"# ">> \o r.titulo
        \o <<"\n", "**Cliente:** ">> \o r.cliente \o <<"  ">>
        \o <<"\n", "**Projeto:** ">> \o r.projeto \o <<"  ">>
        \o <<"\n", "**Código:** ">> \o r.codigo \o <<"  ">>
        \o <<"\n", "**Data:** ">> \o r.data \o <<"  ">>
        \o <<"\n", "**Versão:** ">> \o r.versao
        \o <<"\n", "\n", "---", "\n", "\n", "## Autores", "\n">>
        \o ListBlock([i \in 1..Len(au) |->
               <<"- ">> \o au[i].nome \o <<" (">> \o au[i].cargo \o <<") <">>
               \o au[i].email \o <<">">>])
        \o <<"\n", "\n", "**Aprovador:** ">>

\* the preview from the references on: a line "- citation" per reference
\* kept, a line "- **title** -- description (link)" per attachment kept, the
\* link segment only for a link that is not empty
PreviewBottom(r, blankOnly) ==
    LET re == Kept(r.referencias, "referencia", blankOnly)
        an == Kept(r.anexos, "titulo", blankOnly)
    IN  <<"\n", "\n", "## Referências", "\n">>
        \o ListBlock([i \in 1..Len(re) |-> <<"- ">> \o re[i].referencia])
        \o <<"\n", "\n", "## Anexos", "\n">>
        \o ListBlock([i \in 1..Len(an) |->
               <<"- **">> \o an[i].titulo \o <<"** -- ">> \o an[i].descricao \o <<" ">>
               \o (IF an[i].link = <<>> THEN <<>>
                   ELSE <<"(">> \o an[i].link \o <<")">>)])
        \o <<"\n", "\n", "## Observações", "\n">> \o r.observacoes

\* C7 as stated: the preview has the metadata each on its line and, in list
\* order, one line for exactly the authors whose name is not empty, the
\* references whose citation is not empty and the attachments whose title is
\* not empty.
C7_NonEmptyEntries ==
    \A s \in Sessions :
        /\ IsPrefix(PreviewTop(rel[s], FALSE), preview[s].md)
        /\ IsSuffix(PreviewBottom(rel[s], FALSE), preview[s].md)

\* C7 amended: the same, the entries kept being exactly those whose name,
\* citation or title is not blank (not empty once stripped of white space),
\* and each metadata line but the version's ending in two spaces.
C7_NonBlankEntries ==
    \A s \in Sessions :
        /\ IsPrefix(PreviewTop(rel[s], TRUE), preview[s].md)
        /\ IsSuffix(PreviewBottom(rel[s], TRUE), preview[s].md)

\* the code C1 and four authors, one of them with a blank name and one with
\* an empty name, have been typed: three lines fewer than entries
C7_Witness ==
    /\ rel["s1"].codigo = <<"C1">>
    /\ rel["s1"].autores = Filled.autores
    /\ Occurrences(preview["s1"].md, "- ") = 2
    /\ Occurrences(preview["s1"].md, "Bob") = 1

\* ------------------------------------------------------------------------
\* Specification of the uploads: any configuration of the two destinations,
\* any answer of the remote service to each request
\* ------------------------------------------------------------------------

InitUpload ==
    /\ disk = (DefaultDir :> NoFiles)
    /\ \E sec \in [Destinations -> {"absent", "invalid", "valid"}] :
           InitConfigured(sec)

NextUpload ==
    \E s \in {"s1"} :
        \/ \E o \in Outcomes : EnviarRascunhoDrive(s, o)
        \/ \E o1, o2, o3 \in Outcomes : EnviarExportacoesDrive(s, o1, o2, o3)
        \/ \E o \in Outcomes : EnviarRascunhoGitHub(s, o)
        \/ \E o1, o2, o3 \in Outcomes : EnviarExportacoesGitHub(s, o1, o2, o3)

SpecUpload == InitUpload /\ [][NextUpload]_vars

\* C9: each adapter call makes at most one request; a call that did not
\* store the file reaches its caller as an exception, never as an ordinary
\* return value; a call that stored it returns a URL or a path.
C9_FailuresSurface ==
    \A i \in 1..Len(upload.calls) :
        LET c == upload.calls[i]
        IN  /\ c.requests <= 1
            /\ ~c.sent => c.raised
            /\ c.sent => ~c.raised /\ c.ret # <<>>

\* C10: an export of the three files attempts each of the three uploads
\* whatever the others' outcome, to Drive and to GitHub, and no file sent is
\* undone.
C10_AllAttempted ==
    /\ upload.handler \in {"exportacoes_drive", "exportacoes_github"} =>
           /\ Len(upload.calls) = 3
           /\ Sent(upload.calls) \subseteq remote[upload.calls[1].dest]

\* every operation of the session s1 within the bounds above, and the calls
\* of two sessions interleaved
\* ------------------------------------------------------------------------
\* Specification of the exports: the form submitted with any one field
\* changed or a logo uploaded, the PDF and the DOCX built at the end of the
\* run
\* ------------------------------------------------------------------------

\* an image of 800 x 400 pixels, and a file that is no image
ExportLogos == {Logo(TRUE, TRUE, 800, 400), Logo(TRUE, FALSE, 0, 0)}

\* the fields edited: the title, a metadata value, the lists, the approver,
\* the first and the last section, and the notes
ExportFields ==
    {"titulo", "cliente", "autores", "aprovador", "resumo_exec", "recomendacoes",
     "referencias", "anexos", "observacoes"}

NextExport ==
    \E s \in {"s1"} :
        \/ \E typed \in Edits(rel[s], ExportFields) :
               nedits < MaxEdits /\ FormSubmit(s, typed)
        \/ \E logo_file \in ExportLogos \ {logo[s]} : LogoUpload(s, logo_file)

SpecExport == Init /\ [][NextExport]_vars

\* the blocks of the two documents after the metadata, by title, in order
BlockTitles == <<"Autores", "Aprovador">> \o SectionTitles \o <<"Referências", "Anexos">>

IsPdfTitle(f) ==
    /\ f.type = "Paragraph" /\ f.style = "BodyText"
    /\ Len(f.text) >= 3 /\ f.text[1] = "<b>" /\ f.text[3] = "</b>"
    /\ \E i \in 1..Len(BlockTitles) : BlockTitles[i] = f.text[2]

IsDocxTitle(f) ==
    \/ f.type = "Heading" /\ f.style = "Heading 1"
    \/ f.type = "Paragraph" /\ Len(f.text) >= 1 /\ f.text[1] = "Aprovador: "

PdfTitles(story) ==
    LET t == SelectSeq(story, IsPdfTitle) IN [i \in 1..Len(t) |-> t[i].text[2]]

DocxTitles(body) ==
    LET t == SelectSeq(body, IsDocxTitle)
    IN  [i \in 1..Len(t) |-> IF t[i].type = "Heading" THEN t[i].text[1] ELSE "Aprovador"]

IsMarkup(x) == x \in {"<b>", "</b>"}

IsNotMarkup(x) == ~IsMarkup(x)

\* the metadata paragraph of each document
PdfMeta(story) ==
    CHOOSE f \in {story[i] : i \in 1..Len(story)} :
        f.type = "Paragraph" /\ f.text[1] = "Cliente: "

DocxMeta(body) == body[2]

\* the block of that title shows the placeholder and nothing else
PdfPlaceholder(story, title) ==
    \E i \in 1..Len(story) :
        \/ story[i].text = Bold(<<title>>) \o <<"<br/>">> \o Placeholder
        \/ /\ story[i].text = Bold(<<title>>)
           /\ i + 2 <= Len(story)
           /\ story[i + 2].text = Placeholder

DocxPlaceholder(body, title) ==
    \/ \E i \in 1..Len(body) :
           /\ body[i] = Heading(<<title>>, 1)
           /\ i + 1 <= Len(body)
           /\ body[i + 1] = Para(Placeholder)
           /\ i + 2 <= Len(body) => body[i + 2].type = "Heading"
    \/ title = "Aprovador" /\ \E i \in 1..Len(body) :
           body[i] = Para(<<"Aprovador: ">> \o Placeholder)

\* C11: whenever both documents are built, the DOCX has the blocks of the
\* PDF in the same order and the same fallbacks: the same metadata text
\* with "-" for each empty value, and the placeholder in exactly the blocks
\* where the PDF has it, which are the authors block without a named
\* author, the empty approver, each empty section, and the references and
\* attachments blocks without a kept entry
C11_SameBlocksAndFallbacks ==
    \A s \in Sessions :
        exports[s].docx.ok =>
            LET story == exports[s].pdf.story
                body == exports[s].docx.body
                r == rel[s]
            IN  /\ PdfTitles(story) = DocxTitles(body)
                /\ SelectSeq(PdfMeta(story).text, IsNotMarkup)
                       = replace(DocxMeta(body).text, "\n", "<br/>")
                /\ \A i \in 1..Len(BlockTitles) :
                       PdfPlaceholder(story, BlockTitles[i])
                           <=> DocxPlaceholder(body, BlockTitles[i])
                /\ autores_kept(r) = <<>> => DocxPlaceholder(body, "Autores")
                /\ referencias_kept(r) = <<>> => DocxPlaceholder(body, "Referências")
                /\ anexos_kept(r) = <<>> => DocxPlaceholder(body, "Anexos")

Count(seq, x) == Cardinality({i \in 1..Len(seq) : seq[i] = x})

\* the notes block is the last of the PDF: its title paragraph, a spacer,
\* the notes with their newlines as breaks, a spacer
PdfEndsWithNotes(story, notes) ==
    LET n == Len(story)
    IN  /\ n >= 4
        /\ story[n - 3].text = Bold(<<"Observações">>)
        /\ story[n - 1].type = "Paragraph"
        /\ story[n - 1].text = replace(notes, "\n", "<br/>")
        /\ story[n - 2].type = "Spacer" /\ story[n].type = "Spacer"

\* the notes block is the last of the DOCX: its heading and the notes
DocxEndsWithNotes(body, notes) ==
    LET n == Len(body)
    IN  /\ n >= 2
        /\ body[n - 1] = Heading(<<"Observações">>, 1)
        /\ body[n] = Para(notes)

\* C12: in the PDF and in the DOCX alike the notes block is there exactly
\* when the notes are not empty; when there it is the last block, once,
\* right after the attachments; when the notes are empty the attachments
\* block is the last and there is neither a notes title nor a placeholder
\* for the notes
C12_NotesLastOrAbsent ==
    \A s \in Sessions :
        exports[s].docx.ok =>
            LET story == exports[s].pdf.story
                body == exports[s].docx.body
                notes == rel[s].observacoes
                pt == PdfTitles(story)
                dt == DocxTitles(body)
            IN  /\ Count(pt, "Observações") = (IF notes # <<>> THEN 1 ELSE 0)
                /\ Count(dt, "Observações") = (IF notes # <<>> THEN 1 ELSE 0)
                /\ notes # <<>> =>
                       /\ PdfEndsWithNotes(story, notes)
                       /\ DocxEndsWithNotes(body, notes)
                       /\ pt[Len(pt)] = "Observações" /\ pt[Len(pt) - 1] = "Anexos"
                       /\ dt[Len(dt)] = "Observações" /\ dt[Len(dt) - 1] = "Anexos"
                /\ notes = <<>> =>
                       /\ pt[Len(pt)] = "Anexos" /\ dt[Len(dt)] = "Anexos"
                       /\ ~PdfEndsWithNotes(story, Placeholder)
                       /\ ~DocxEndsWithNotes(body, Placeholder)
                       /\ ~PdfPlaceholder(story, "Observações")
                       /\ ~DocxPlaceholder(body, "Observações")

\* a report with notes, a logo and attachments has been exported, and the
\* notes end both documents
C12_Witness ==
    /\ exports["s1"].docx.ok
    /\ logo["s1"].present
    /\ rel["s1"].observacoes = Tricky
    /\ PdfEndsWithNotes(exports["s1"].pdf.story, Tricky)
    /\ DocxEndsWithNotes(exports["s1"].docx.body, Tricky)

\* ------------------------------------------------------------------------
\* Specification of the local saves: the form submitted with autosave on,
\* "Salvar local agora", the drafts directory changed, and a directory
\* removed from outside the program
\* ------------------------------------------------------------------------

\* codes: none, and with a space, with a tab and with a separator
SaveCodes == CodeValues \cup {<<"R", "\t", "1">>, <<"a", "/", "b">>}

\* the reports typed: the code changed, or every field filled in
SaveEdits(r) ==
    ({[r EXCEPT !.codigo = c] : c \in SaveCodes}
         \cup {[Filled EXCEPT !.codigo = r.codigo]}) \ {r}

\* the environment: a directory deleted with what it holds
RemoveDir(d) ==
    /\ d \in DOMAIN disk
    /\ disk' = [x \in DOMAIN disk \ {d} |-> disk[x]]
    /\ UNCHANGED <<rel, msg, preview, exports, nedits, uiVars, allocVars, uploadVars>>

NextSave ==
    \/ \E s \in {"s1"} :
           \/ \E typed \in SaveEdits(rel[s]) :
                  nedits < MaxEdits /\ FormSubmit(s, typed)
           \/ SalvarLocal(s)
           \/ \E d \in Dirs : SetDraftDir(s, d)
    \/ \E d \in Dirs : RemoveDir(d)

SpecSave == Init /\ [][NextSave]_vars

\* the code with each symbol of the set replaced by an underscore
Underscored(code, syms) ==
    [i \in 1..Len(code) |-> IF code[i] \in syms THEN "_" ELSE code[i]]

\* a step of the program (not the removal of a directory) after which the
\* session displays that its draft was saved, or that the save failed
ProgramStep == ~(DOMAIN disk' \subseteq DOMAIN disk /\ DOMAIN disk' # DOMAIN disk)

MsgKinds(s, kinds) == ProgramStep /\ msg'[s] # NoMsg /\ msg'[s].kind \in kinds

SaveDone(s) ==
    /\ MsgKinds(s, {"success", "toast"})
    /\ msg'[s].text[1] \in {"Salvo em ", "Rascunho salvo localmente"}

SaveFailed(s) ==
    /\ MsgKinds(s, {"error", "warning"})
    /\ msg'[s].text[1] \in {"Falha ao salvar: ", "Não foi possível salvar automaticamente: "}

\* after the step the directory holds the file of that name with exactly the
\* serialisation of the report; no other file of it has changed
HoldsDraft(dsk, dsk1, d, name, r) ==
    /\ d \in DOMAIN dsk1
    /\ name \in DOMAIN dsk1[d]
    /\ dsk1[d][name] = json_dumps(model_dump(r))
    /\ \A n \in DOMAIN dsk1[d] \ {name} : exists(dsk, d, n) /\ dsk1[d][n] = dsk[d][n]

\* C13 as stated: after a save the directory exists and the file named by
\* the (non-empty) code with every white-space character replaced by an
\* underscore, plus ".json", holds exactly the serialisation of the report
C13_EveryWhitespace ==
    [][\A s \in Sessions :
           SaveDone(s) /\ rel'[s].codigo # <<>> =>
               HoldsDraft(disk, disk', draft_dir'[s],
                          Underscored(rel'[s].codigo, WhitespaceSyms) \o <<".json">>,
                          rel'[s])]_vars

\* C13 amended: after a save the directory exists and the file named by the
\* code, or by "relatorio" for an empty code, with every space (and no other
\* white space) replaced by an underscore, plus ".json", holds exactly the
\* serialisation of the report, whatever it held before; a save that fails
\* says so and changes no file
C13_SpacesOnly ==
    [][\A s \in Sessions :
           /\ SaveDone(s) =>
                  HoldsDraft(disk, disk', draft_dir'[s],
                             Underscored(Or(rel'[s].codigo, <<"relatorio">>), {" "})
                                 \o <<".json">>,
                             rel'[s])
           /\ SaveFailed(s) =>
                  /\ draft_dir'[s] \in DOMAIN disk'
                  /\ \A n \in DOMAIN disk'[draft_dir'[s]] :
                         /\ exists(disk, draft_dir'[s], n)
                         /\ disk'[draft_dir'[s]][n] = disk[draft_dir'[s]][n]]_vars

\* the report with the code "R<tab>1" has been saved over an earlier draft
\* of that code: the file keeps the tab in its name and holds the new report
C13_Witness ==
    /\ msg["s1"] = SavedMsg("s1")
    /\ rel["s1"] = [Filled EXCEPT !.codigo = <<"R", "\t", "1">>]
    /\ exists(disk, "drafts", <<"R", "\t", "1", ".json">>)
    /\ disk["drafts"][<<"R", "\t", "1", ".json">>] = draft_text(rel["s1"])
    /\ nedits = 2

\* ------------------------------------------------------------------------
\* Specification of the logo: each session uploads one file after another,
\* images of every size of the set and a file that is no image
\* ------------------------------------------------------------------------

PixelSizes == {0, 1, 3, 400, 800}

LogoValues ==
    {Logo(TRUE, TRUE, w, h) : w \in PixelSizes, h \in PixelSizes}
        \cup {Logo(TRUE, FALSE, 0, 0)}

\* the widths of the width field: 1.0 to 12.0 cm in steps of 0.5
LogoWidths == {Rat(k, 2) : k \in 2..24}

NextLogo ==
    \E s \in Sessions : \E logo_file \in LogoValues \ {logo[s]} : LogoUpload(s, logo_file)

SpecLogo == Init /\ [][NextLogo]_vars

\* the claimed dimensions: the width asked for, and a height that is to it
\* as the image's height is to its width, or half of it for an image
\* without width or height
ClaimedDims(d, width_cm, w, h) ==
    /\ ~d.raised
    /\ d.w = width_cm
    /\ d.h[2] # 0
    /\ IF w = 0 \/ h = 0
       THEN RatMul(d.h, <<2, 1>>) = width_cm
       ELSE RatMul(d.h, <<w, 1>>) = RatMul(width_cm, <<h, 1>>)

\* C14: for every image a session holds as its logo, get_logo_dims_cm
\* returns, for every width of the width field, that width and the height
\* width x height / width of the image, or width x 0.5 when the image has
\* no width or no height, and does not raise; the image placed at the head
\* of the PDF has these dimensions for the width 3.5
C14_LogoDims ==
    \A s \in Sessions :
        logo[s].present /\ logo[s].decodes =>
            /\ \A width_cm \in LogoWidths :
                   ClaimedDims(get_logo_dims_cm(logo[s], width_cm), width_cm,
                               logo[s].w, logo[s].h)
            /\ exports[s].pdf.ok
            /\ exports[s].pdf.story[1].type = "Image"
            /\ ClaimedDims(Dims(FALSE, exports[s].pdf.story[1].w, exports[s].pdf.story[1].h),
                           LOGO_WIDTH_DEFAULT, logo[s].w, logo[s].h)

\* an image of 800 x 400 is in the PDF 3.5 cm wide and 1.75 cm high, and
\* the other session holds an image without width
C14_Witness ==
    /\ logo["s1"] = Logo(TRUE, TRUE, 800, 400)
    /\ exports["s1"].pdf.story[1] = Flowable("Image", "", <<>>, <<7, 2>>, <<7, 4>>)
    /\ logo["s2"] = Logo(TRUE, TRUE, 0, 400)
    /\ exports["s2"].pdf.story[1] = Flowable("Image", "", <<>>, <<7, 2>>, <<7, 4>>)

\* ------------------------------------------------------------------------
\* Specification of the allocator under changing prefixes and directories:
\* two sessions, each call run to its end before the next
\* ------------------------------------------------------------------------

\* the default prefix and a prefix that ends in a digit
Prefixes == {DefaultPrefix, <<"A", "1">>}

MaxPrefixCalls == 3

NextPrefix ==
    \E s \in Sessions :
        \/ ver[draft_dir[s]] < MaxPrefixCalls /\ GerarCodigo(s)
        \/ \E prefix \in Prefixes : SetPrefix(s, prefix)
        \/ \E d \in Dirs : SetDraftDir(s, d)

SpecPrefix == Init /\ [][NextPrefix]_vars

\* the number that follows the prefix in the code
NumericPart(code, prefix) == DigitsToNat(SubSeq(code, Len(prefix) + 1, Len(code)))

\* C15: each directory has one counter, whatever the prefixes.  The code a
\* session got from the k-th call on a directory is the prefix of that call
\* followed by k, and every directory's counter file stores the number of
\* calls made on that directory (there is none before the first), so that
\* calls on one directory leave the counter of another alone
C15_OneCounterPerDir ==
    /\ \A s \in Sessions :
           alloc[s].done =>
               LET code == alloc[s].ret
                   pre == alloc[s].prefix
               IN  /\ alloc[s].wr = alloc[s].rd + 1
                   /\ alloc[s].wr <= ver[alloc[s].dir]
                   /\ SubSeq(code, 1, Len(pre)) = pre
                   /\ AllDigits(SubSeq(code, Len(pre) + 1, Len(code)))
                   /\ NumericPart(code, pre) = alloc[s].wr
    /\ \A d \in Dirs :
           IF ver[d] = 0 THEN ~exists(disk, d, COUNTER_FILE_DEFAULT)
           ELSE StoresCounter(disk, d, ver[d])

\* the third call on the default directory, made with the prefix "A1" after
\* a call with another prefix, returned A1003, while the only call on the
\* other directory returned 001
C15_Witness ==
    /\ alloc["s1"].done /\ alloc["s1"].dir = "drafts"
    /\ alloc["s1"].ret = <<"A", "1", "0", "0", "3">>
    /\ alloc["s2"].done /\ alloc["s2"].dir = "shared"
    /\ alloc["s2"].ret = DefaultPrefix \o <<"0", "0", "1">>
    /\ alloc["s2"].prefix # alloc["s1"].prefix
    /\ ver = [d \in Dirs |-> IF d = "drafts" THEN 3 ELSE 1]

Next ==
    \/ NextSeq \/ NextRace \/ NextDraft \/ NextRender \/ NextUpload
    \/ NextExport \/ NextSave \/ NextLogo \/ NextPrefix
Spec == Init /\ [][Next]_vars
====
